---- MODULE Spec2Model ----
(***************************************************************************)
(* The task routes of task-manager-api (routes/tasks.ts): the five         *)
(* handlers mounted on /tasks, the SQLite `tasks` table they read and      *)
(* write, the store clock used by strftime('now'), and the statement       *)
(* cache.  Text is a sequence of one-character strings, so that parseInt,  *)
(* trim, the ISO date pattern and SQLite's BINARY text comparison are      *)
(* computed as the code computes them.                                     *)
(***************************************************************************)
EXTENDS Integers, Sequences, FiniteSets

VARIABLES tasks, nextId, now, stmtCache, last

vars == <<tasks, nextId, now, stmtCache, last>>

(***************************************************************************)
(* Bounds of the model.                                                    *)
(***************************************************************************)
\* rows ever inserted (AUTOINCREMENT ids 1..MaxTasks)
MaxTasks == 2
\* seconds the store clock may advance
MaxClock == 1

(***************************************************************************)
(* Text.                                                                   *)
(***************************************************************************)
\* JavaScript `undefined` (an absent key or query parameter) and JSON/SQL null
UNDEFINED == <<"undefined">>
NULL == <<"null">>

\* the characters used, in ascending code-unit order
Alphabet ==
  <<"\t", " ", "+", "-", ".", "0", "1", "2", "3", "4", "5", "6", "7", "8", "9",
    ":", "A", "B", "T", "X", "Z", "_", "a", "b", "c", "d", "e", "f", "g", "h",
    "i", "l", "m", "n", "o", "p", "r", "s", "t", "u", "w", "x", "y", "z">>

Code(c) == CHOOSE i \in 1..Len(Alphabet) : Alphabet[i] = c

\* JSON values that are not text: the numbers 5 and 0, true, false and {}
J_5 == <<"number 5">>
J_0 == <<"number 0">>
J_true == <<"boolean true">>
J_false == <<"boolean false">>
J_object == <<"object {}">>

NotText == {J_5, J_0, J_true, J_false, J_object}

\* typeof v === 'string'
IsText(v) == v # UNDEFINED /\ v # NULL /\ v \notin NotText

\* !v
Falsy(v) == v \in {UNDEFINED, NULL, <<>>, J_0, J_false}

\* better-sqlite3 binds numbers, strings, bigints, buffers and null; it throws
\* a TypeError for a boolean, and it reads a plain object as named parameters,
\* which leaves the statement one value short and throws as well
CanBind(v) == v \notin {J_true, J_false, J_object}

\* a number stored in a column of TEXT affinity is converted to its text
TextAffinity(v) == IF v = J_5 THEN <<"5">> ELSE IF v = J_0 THEN <<"0">> ELSE v

\* memcmp order of two texts (SQLite BINARY collation, JS string order)
RECURSIVE TextLtFrom(_, _, _)
TextLtFrom(a, b, i) ==
  IF i > Len(a) THEN i <= Len(b)
  ELSE IF i > Len(b) THEN FALSE
  ELSE IF a[i] = b[i] THEN TextLtFrom(a, b, i + 1)
  ELSE Code(a[i]) < Code(b[i])

TextLt(a, b) == TextLtFrom(a, b, 1)

Digits == <<"0", "1", "2", "3", "4", "5", "6", "7", "8", "9">>

IsDigit(c) == \E i \in 1..10 : Digits[i] = c

DigitVal(c) == (CHOOSE i \in 1..10 : Digits[i] = c) - 1

IsSpace(c) == c \in {" ", "\t"}

\* String.prototype.trim
RECURSIVE TrimLeft(_)
TrimLeft(s) ==
  IF s # <<>> /\ IsSpace(Head(s)) THEN TrimLeft(Tail(s)) ELSE s

RECURSIVE TrimRight(_)
TrimRight(s) ==
  IF s # <<>> /\ IsSpace(s[Len(s)]) THEN TrimRight(SubSeq(s, 1, Len(s) - 1)) ELSE s

Trim(s) == TrimRight(TrimLeft(s))

\* String(x) for the values that reach parseInt
JsString(v) ==
  IF v = UNDEFINED THEN <<"u", "n", "d", "e", "f", "i", "n", "e", "d">> ELSE v

\* String(n) for an integer n
RECURSIVE NatToText(_)
NatToText(n) ==
  IF n < 10 THEN <<Digits[n + 1]>> ELSE NatToText(n \div 10) \o <<Digits[(n % 10) + 1]>>

NumberToString(n) == IF n < 0 THEN <<"-">> \o NatToText(0 - n) ELSE NatToText(n)

\* the value of the longest prefix of decimal digits of s, from accumulator acc
RECURSIVE DigitPrefixValue(_, _)
DigitPrefixValue(s, acc) ==
  IF s # <<>> /\ IsDigit(Head(s))
    THEN DigitPrefixValue(Tail(s), acc * 10 + DigitVal(Head(s)))
    ELSE acc

HexDigits == Digits \o <<"a", "b", "c", "d", "e", "f">>

UpperHex == <<"A", "B">>

IsHexDigit(c) ==
  \/ \E i \in 1..Len(HexDigits) : HexDigits[i] = c
  \/ \E i \in 1..Len(UpperHex) : UpperHex[i] = c

HexVal(c) ==
  IF \E i \in 1..Len(UpperHex) : UpperHex[i] = c
    THEN 9 + (CHOOSE i \in 1..Len(UpperHex) : UpperHex[i] = c)
    ELSE (CHOOSE i \in 1..Len(HexDigits) : HexDigits[i] = c) - 1

RECURSIVE HexPrefixValue(_, _)
HexPrefixValue(s, acc) ==
  IF s # <<>> /\ IsHexDigit(Head(s))
    THEN HexPrefixValue(Tail(s), acc * 16 + HexVal(Head(s)))
    ELSE acc

NaN == [nan |-> TRUE, val |-> 0]

Num(n) == [nan |-> FALSE, val |-> n]

\* parseInt(raw, radix); radix 0 stands for the one-argument call, which
\* reads a 0x / 0X prefix as hexadecimal
ParseInt(raw, radix) ==
  LET s0 == TrimLeft(JsString(raw))
      neg == s0 # <<>> /\ Head(s0) = "-"
      s1 == IF s0 # <<>> /\ Head(s0) \in {"+", "-"} THEN Tail(s0) ELSE s0
      hex == radix = 0 /\ Len(s1) >= 2 /\ s1[1] = "0" /\ s1[2] \in {"x", "X"}
      s2 == IF hex THEN Tail(Tail(s1)) ELSE s1
      sign == IF neg THEN 0 - 1 ELSE 1
  IN IF hex
       THEN IF s2 # <<>> /\ IsHexDigit(Head(s2))
              THEN Num(sign * HexPrefixValue(s2, 0)) ELSE NaN
       ELSE IF s2 # <<>> /\ IsDigit(Head(s2))
              THEN Num(sign * DigitPrefixValue(s2, 0)) ELSE NaN

\* x || d for a number x: NaN and 0 are falsy
OrDefault(x, d) == IF x.nan \/ x.val = 0 THEN d ELSE x.val

Min(a, b) == IF a < b THEN a ELSE b

Max(a, b) == IF a > b THEN a ELSE b

(***************************************************************************)
(* Constants of routes/tasks.ts.                                           *)
(***************************************************************************)
S_todo == <<"t", "o", "d", "o">>
S_in_progress == <<"i", "n", "_", "p", "r", "o", "g", "r", "e", "s", "s">>
S_done == <<"d", "o", "n", "e">>
S_low == <<"l", "o", "w">>
S_medium == <<"m", "e", "d", "i", "u", "m">>
S_high == <<"h", "i", "g", "h">>
S_urgent == <<"u", "r", "g", "e", "n", "t">>
S_true == <<"t", "r", "u", "e">>

VALID_STATUSES == {S_todo, S_in_progress, S_done}

VALID_PRIORITIES == {S_low, S_medium, S_high, S_urgent}

MAX_PAGE_SIZE == 500

DEFAULT_PAGE_SIZE == 50

\* /^\d{4}-\d{2}-\d{2}(T\d{2}:\d{2}:\d{2}Z)?$/ .test(s)
DatePart(s) ==
  /\ \A i \in {1, 2, 3, 4, 6, 7, 9, 10} : IsDigit(s[i])
  /\ s[5] = "-" /\ s[8] = "-"

TimePart(s) ==
  /\ s[11] = "T" /\ s[14] = ":" /\ s[17] = ":" /\ s[20] = "Z"
  /\ \A i \in {12, 13, 15, 16, 18, 19} : IsDigit(s[i])

ISO_DATE_RE(s) ==
  \/ Len(s) = 10 /\ DatePart(s)
  \/ Len(s) = 20 /\ DatePart(s) /\ TimePart(s)

\* the store clock: strftime('%Y-%m-%dT%H:%M:%SZ', 'now') at second `t` after
\* 2021-01-01T00:00:00Z
Pad2(n) == <<Digits[(n \div 10) + 1], Digits[(n % 10) + 1]>>

NOW_EXPR(t) ==
  <<"2", "0", "2", "1", "-", "0", "1", "-", "0", "1", "T", "0", "0", ":">>
    \o Pad2(t \div 60) \o <<":">> \o Pad2(t % 60) \o <<"Z">>

\* the overdue clause without the status term
OVERDUE_CLAUSE_AnyStatus(row, t) ==
  /\ row.due_date # NULL
  /\ TextLt(row.due_date, NOW_EXPR(t))

\* due_date < NOW AND status != 'done'; a comparison with NULL is not true
OVERDUE_CLAUSE(row, t) ==
  /\ row.due_date # NULL
  /\ TextLt(row.due_date, NOW_EXPR(t))
  /\ row.status # S_done

\* the parse without the comparison of String(n) with the parameter
parseTaskId_NoRoundTrip(raw) ==
  LET n == ParseInt(raw, 10)
  IN IF ~n.nan /\ n.val > 0 THEN n.val ELSE 0

parseTaskId(raw) ==
  LET n == ParseInt(raw, 10)
  IN IF ~n.nan /\ n.val > 0 /\ NumberToString(n.val) = raw THEN n.val ELSE 0

(***************************************************************************)
(* Responses: status code, error message ("" when none), the entities      *)
(* carried, the list metadata, and the { deleted: true } marker.           *)
(***************************************************************************)
NoMeta == [total |-> 0 - 1, limit |-> 0 - 1, offset |-> 0 - 1]

ErrorResp(code, msg) ==
  [status |-> code, error |-> msg, data |-> <<>>, meta |-> NoMeta, deleted |-> FALSE]

ok(code, rows) ==
  [status |-> code, error |-> "", data |-> rows, meta |-> NoMeta, deleted |-> FALSE]

NotFound == ErrorResp(404, "Task not found")

\* the answer to a request whose handler threw: app.ts installs no error
\* handler, so Express's own answers 500 with a page that is not a JSON
\* document and carries no `error` key
Uncaught == ErrorResp(500, "")

\* 0 stands for null: the 404 has been sent
resolveTaskId(raw) == parseTaskId(raw)

\* the validation of the status alone
validateEnums_StatusOnly(status, priority) ==
  IF status # UNDEFINED /\ status \notin VALID_STATUSES
    THEN "Invalid status. Must be one of: todo, in_progress, done"
  ELSE ""

validateEnums(status, priority) ==
  IF status # UNDEFINED /\ status \notin VALID_STATUSES
    THEN "Invalid status. Must be one of: todo, in_progress, done"
  ELSE IF priority # UNDEFINED /\ priority \notin VALID_PRIORITIES
    THEN "Invalid priority. Must be one of: low, medium, high, urgent"
  ELSE ""

\* x ?? d
Coalesce(x, d) == IF x = UNDEFINED \/ x = NULL THEN d ELSE x

(***************************************************************************)
(* middleware/auth.ts.  A token is kept as what jwt.verify finds in it:    *)
(* whether it parses, the key and algorithm of its signature, its issuer   *)
(* and audience, whether its exp or the 25h maxAge has passed, and its     *)
(* payload.  An Authorization header is kept as its first seven            *)
(* characters and the token that follows them (`blank` when nothing but    *)
(* white space follows).                                                   *)
(***************************************************************************)
\* process.env.JWT_SECRET, "" when unset; app.ts exits unless it is set
JWT_SECRET == "secret"

ISSUER == "task-manager-api"

Payload(object, userId, integer, email, exp) ==
  [object |-> object, userId |-> userId, integer |-> integer, email |-> email,
   exp |-> exp]

Token(parses, key, alg, iss, aud, expired, payload) ==
  [blank |-> FALSE, parses |-> parses, key |-> key, alg |-> alg, iss |-> iss,
   aud |-> aud, expired |-> expired, payload |-> payload]

NoPayload == Payload(FALSE, 0, FALSE, "", FALSE)

BlankToken == [Token(FALSE, "", "", "", "", FALSE, NoPayload) EXCEPT !.blank = TRUE]

Header(prefix, token) == [present |-> TRUE, prefix |-> prefix, token |-> token]

\* no Authorization header
NoHeader == [present |-> FALSE, prefix |-> "", token |-> BlankToken]

\* the header the login route hands out for user `u`: jwt.sign({ userId,
\* email }, secret, { expiresIn: '24h', algorithm: 'HS256', issuer, audience })
BearerOf(u) ==
  Header("Bearer ",
         Token(TRUE, JWT_SECRET, "HS256", ISSUER, ISSUER, FALSE,
               Payload(TRUE, u, TRUE, "user@example.com", TRUE)))

isAuthPayload(value) ==
  /\ value.object
  /\ value.integer
  /\ value.userId > 0
  /\ value.email # ""
  /\ value.exp

\* jwt.verify(token, secret, { algorithms: ['HS256'], maxAge: '25h', issuer,
\* audience }) returns the payload, and throws otherwise
jwtVerifies(token, secret) ==
  /\ token.parses
  /\ token.alg \in {"HS256"}
  /\ token.key = secret
  /\ ~token.expired
  /\ token.iss = ISSUER
  /\ token.aud = ISSUER

Denied(code, msg) == [status |-> code, error |-> msg, user |-> 0]

\* the middleware trusting the payload of a token it has only decoded
authenticate_Unverified(header, secret) ==
  IF ~header.present \/ header.prefix # "Bearer " THEN Denied(401, "Unauthorized")
  ELSE IF header.token.blank THEN Denied(401, "Unauthorized")
  ELSE IF secret = "" THEN Denied(500, "Server misconfiguration")
  ELSE IF ~header.token.parses THEN Denied(401, "Unauthorized")
  ELSE IF ~isAuthPayload(header.token.payload) THEN Denied(401, "Unauthorized")
  ELSE [status |-> 0, error |-> "", user |-> header.token.payload.userId]

\* authenticate: status 0 stands for next(), with req.user set
authenticate(header, secret) ==
  IF ~header.present \/ header.prefix # "Bearer " THEN Denied(401, "Unauthorized")
  ELSE IF header.token.blank THEN Denied(401, "Unauthorized")
  ELSE IF secret = "" THEN Denied(500, "Server misconfiguration")
  ELSE IF ~jwtVerifies(header.token, secret) THEN Denied(401, "Unauthorized")
  ELSE IF ~isAuthPayload(header.token.payload) THEN Denied(401, "Unauthorized")
  ELSE [status |-> 0, error |-> "", user |-> header.token.payload.userId]

(***************************************************************************)
(* The statement cache.  A statement's text is kept as its fragments.      *)
(***************************************************************************)
getStmt(cache, sql) == cache \cup {sql}

(***************************************************************************)
(* The store: `tasks` maps the id of each row to the row.                  *)
(***************************************************************************)
Ids == DOMAIN tasks

\* the row of a table whose created_at default reads a clock one second ahead
\* of the one updated_at reads
Row_CreatedAhead(id, user, title, description, status, priority, due_date, t) ==
  [id |-> id, user_id |-> user, title |-> title, description |-> description,
   status |-> status, priority |-> priority, due_date |-> due_date,
   created_at |-> NOW_EXPR(t + 1), updated_at |-> NOW_EXPR(t)]

Row(id, user, title, description, status, priority, due_date, t) ==
  [id |-> id, user_id |-> user, title |-> title, description |-> description,
   status |-> status, priority |-> priority, due_date |-> due_date,
   created_at |-> NOW_EXPR(t), updated_at |-> NOW_EXPR(t)]

\* the lookup without the owner in its predicate
stmtGetById_AnyOwner(store, id, user) ==
  {store[i] : i \in {j \in DOMAIN store : j = id}}

\* SELECT ... FROM tasks WHERE id = ? AND user_id = ?
stmtGetById(store, id, user) ==
  {store[i] : i \in {j \in DOMAIN store : j = id /\ store[j].user_id = user}}

\* DELETE FROM tasks WHERE id = ? AND user_id = ?
stmtDelete(store, id, user) ==
  [i \in {j \in DOMAIN store : ~(j = id /\ store[j].user_id = user)} |-> store[i]]

\* the insert into a table whose ids are not AUTOINCREMENT: the row takes the
\* id after the greatest one in the table
stmtInsert_ReuseRowid(store, id, row) ==
  LET free == CHOOSE i \in 1..(Cardinality(DOMAIN store) + 1) :
                /\ i \notin DOMAIN store
                /\ \A j \in DOMAIN store : j < i
  IN IF \E i \in 1..(Cardinality(DOMAIN store) + 1) :
          i \notin DOMAIN store /\ \A j \in DOMAIN store : j < i
       THEN [i \in DOMAIN store \cup {free} |-> IF i = free THEN row ELSE store[i]]
       ELSE [i \in DOMAIN store \cup {id} |-> IF i = id THEN row ELSE store[i]]

\* INSERT INTO tasks (...) VALUES (...) RETURNING ...
stmtInsert(store, id, row) ==
  [i \in DOMAIN store \cup {id} |-> IF i = id THEN row ELSE store[i]]

Request(op, user, id, body, query) ==
  [op |-> op, user |-> user, id |-> id, body |-> body, query |-> query]

NoBody ==
  [title |-> UNDEFINED, description |-> UNDEFINED, status |-> UNDEFINED,
   priority |-> UNDEFINED, due_date |-> UNDEFINED]

NoQuery ==
  [status |-> UNDEFINED, priority |-> UNDEFINED, due_before |-> UNDEFINED,
   due_after |-> UNDEFINED, include_overdue |-> UNDEFINED,
   limit |-> UNDEFINED, offset |-> UNDEFINED]

NoId == <<>>

NoRequest == Request("none", 0, NoId, NoBody, NoQuery)

\* no exchange is in flight: the previous response has been delivered
NoExchange ==
  [req |-> NoRequest,
   resp |-> [status |-> 0, error |-> "", data |-> <<>>, meta |-> NoMeta, deleted |-> FALSE],
   pre |-> <<>>, at |-> 0, pages |-> <<>>, scan |-> <<>>, auth |-> NoHeader]

Idle == last.req.op = "none"

\* the exchange in flight: the request, the response sent, the table and the
\* clock the handler started from, the pages of the client's paging run, the
\* order in which the run's statement yields the rows of the table, and the
\* Authorization header it came with
Exchange(header, req, resp, pages, scan) ==
  last' = [req |-> req, resp |-> resp, pre |-> tasks, at |-> now, pages |-> pages,
           scan |-> scan, auth |-> header]

Done(header, req, resp) == Exchange(header, req, resp, <<>>, <<>>)

\* the client takes the response
Deliver ==
  /\ ~Idle
  /\ last' = NoExchange
  /\ UNCHANGED <<tasks, nextId, now, stmtCache>>

(***************************************************************************)
(* POST /tasks                                                             *)
(***************************************************************************)
\* the create handler storing the title as submitted
CreateResp_Untrimmed(store, id, user, body, t) ==
  IF Falsy(body.title) THEN ErrorResp(400, "title is required")
  ELSE IF ~IsText(body.title) THEN Uncaught
  ELSE IF Trim(body.title) = <<>> THEN ErrorResp(400, "title is required")
  ELSE IF validateEnums(body.status, body.priority) # ""
    THEN ErrorResp(400, validateEnums(body.status, body.priority))
  ELSE IF ~CanBind(Coalesce(body.description, NULL)) \/ ~CanBind(Coalesce(body.due_date, NULL))
    THEN Uncaught
  ELSE ok(201, <<Row(id, user, body.title, TextAffinity(Coalesce(body.description, NULL)),
                     Coalesce(body.status, S_todo), Coalesce(body.priority, S_medium),
                     TextAffinity(Coalesce(body.due_date, NULL)), t)>>)

CreateResp(store, id, user, body, t) ==
  IF Falsy(body.title) THEN ErrorResp(400, "title is required")
  ELSE IF ~IsText(body.title) THEN Uncaught
  ELSE IF Trim(body.title) = <<>> THEN ErrorResp(400, "title is required")
  ELSE IF validateEnums(body.status, body.priority) # ""
    THEN ErrorResp(400, validateEnums(body.status, body.priority))
  ELSE IF ~CanBind(Coalesce(body.description, NULL)) \/ ~CanBind(Coalesce(body.due_date, NULL))
    THEN Uncaught
  ELSE ok(201, <<Row(id, user, Trim(body.title), TextAffinity(Coalesce(body.description, NULL)),
                     Coalesce(body.status, S_todo), Coalesce(body.priority, S_medium),
                     TextAffinity(Coalesce(body.due_date, NULL)), t)>>)

CreateWith(header, user, body) ==
  /\ Idle
  /\ nextId <= MaxTasks
  /\ LET resp == CreateResp(tasks, nextId, user, body, now)
     IN /\ IF resp.status = 201
             THEN /\ tasks' = stmtInsert(tasks, nextId, resp.data[1])
                  /\ nextId' = nextId + 1
             ELSE UNCHANGED <<tasks, nextId>>
        /\ Done(header, Request("create", user, NoId, body, NoQuery), resp)
  /\ UNCHANGED <<now, stmtCache>>

\* the handler entered with the token the login route gave `user`
Create(user, body) == CreateWith(BearerOf(user), user, body)

(***************************************************************************)
(* GET /tasks/:id                                                          *)
(***************************************************************************)
GetByIdResp(store, user, raw) ==
  LET id == resolveTaskId(raw)
      found == stmtGetById(store, id, user)
  IN IF id = 0 THEN NotFound
     ELSE IF found = {} THEN NotFound
     ELSE ok(200, <<CHOOSE r \in found : TRUE>>)

GetByIdWith(header, user, raw) ==
  /\ Idle
  /\ Done(header, Request("get", user, raw, NoBody, NoQuery), GetByIdResp(tasks, user, raw))
  /\ UNCHANGED <<tasks, nextId, now, stmtCache>>

GetById(user, raw) == GetByIdWith(BearerOf(user), user, raw)

(***************************************************************************)
(* DELETE /tasks/:id                                                       *)
(***************************************************************************)
DeleteResp(store, user, raw) ==
  LET id == resolveTaskId(raw)
      changes == Cardinality(DOMAIN store) - Cardinality(DOMAIN stmtDelete(store, id, user))
  IN IF id = 0 THEN NotFound
     ELSE IF changes = 0 THEN NotFound
     ELSE [ok(200, <<>>) EXCEPT !.deleted = TRUE]

DeleteWith(header, user, raw) ==
  /\ Idle
  /\ LET id == resolveTaskId(raw)
     IN tasks' = IF id = 0 THEN tasks ELSE stmtDelete(tasks, id, user)
  /\ Done(header, Request("delete", user, raw, NoBody, NoQuery),
          DeleteResp(tasks, user, raw))
  /\ UNCHANGED <<nextId, now, stmtCache>>

Delete(user, raw) == DeleteWith(BearerOf(user), user, raw)

(***************************************************************************)
(* PATCH /tasks/:id                                                        *)
(***************************************************************************)
\* 'key' in body: a JSON document cannot carry undefined, so a key is present
\* exactly when its value is not undefined
In(body, key) == body[key] # UNDEFINED

\* the assignments when an absent description is written as null
PatchSets_AbsentAsNull(body) ==
  (IF In(body, "title") THEN <<<<"title", Trim(Coalesce(body.title, <<>>))>>>> ELSE <<>>)
  \o <<<<"description", Coalesce(body.description, NULL)>>>>
  \o (IF In(body, "status") THEN <<<<"status", body.status>>>> ELSE <<>>)
  \o (IF In(body, "priority") THEN <<<<"priority", body.priority>>>> ELSE <<>>)
  \o (IF In(body, "due_date")
        THEN <<<<"due_date", Coalesce(body.due_date, NULL)>>>> ELSE <<>>)

\* the assignments when a null description or due_date is taken as absent
PatchSets_NullAsAbsent(body) ==
  (IF In(body, "title") THEN <<<<"title", Trim(Coalesce(body.title, <<>>))>>>> ELSE <<>>)
  \o (IF In(body, "description") /\ body.description # NULL
        THEN <<<<"description", body.description>>>> ELSE <<>>)
  \o (IF In(body, "status") THEN <<<<"status", body.status>>>> ELSE <<>>)
  \o (IF In(body, "priority") THEN <<<<"priority", body.priority>>>> ELSE <<>>)
  \o (IF In(body, "due_date") /\ body.due_date # NULL
        THEN <<<<"due_date", body.due_date>>>> ELSE <<>>)

\* the assignments of a handler that also writes the owner and the creation
\* time when the document carries them
PatchSets_RowKeys(body) ==
  (IF In(body, "title") THEN <<<<"title", Trim(Coalesce(body.title, <<>>))>>>> ELSE <<>>)
  \o (IF In(body, "description")
        THEN <<<<"description", Coalesce(body.description, NULL)>>>> ELSE <<>>)
  \o (IF In(body, "status") THEN <<<<"status", body.status>>>> ELSE <<>>)
  \o (IF In(body, "priority") THEN <<<<"priority", body.priority>>>> ELSE <<>>)
  \o (IF In(body, "due_date")
        THEN <<<<"due_date", Coalesce(body.due_date, NULL)>>>> ELSE <<>>)
  \o (IF "user_id" \in DOMAIN body THEN <<<<"user_id", body.user_id>>>> ELSE <<>>)
  \o (IF "created_at" \in DOMAIN body
        THEN <<<<"created_at", body.created_at>>>> ELSE <<>>)

\* the assignments with the title written as submitted
PatchSets_TitleUntrimmed(body) ==
  (IF In(body, "title") THEN <<<<"title", Coalesce(body.title, <<>>)>>>> ELSE <<>>)
  \o (IF In(body, "description")
        THEN <<<<"description", Coalesce(body.description, NULL)>>>> ELSE <<>>)
  \o (IF In(body, "status") THEN <<<<"status", body.status>>>> ELSE <<>>)
  \o (IF In(body, "priority") THEN <<<<"priority", body.priority>>>> ELSE <<>>)
  \o (IF In(body, "due_date")
        THEN <<<<"due_date", Coalesce(body.due_date, NULL)>>>> ELSE <<>>)

\* the assignments pushed on `sets` with their parameters, in the handler's
\* order and as the store takes them
PatchSets(body) ==
  (IF In(body, "title") THEN <<<<"title", Trim(Coalesce(body.title, <<>>))>>>> ELSE <<>>)
  \o (IF In(body, "description")
        THEN <<<<"description", TextAffinity(Coalesce(body.description, NULL))>>>> ELSE <<>>)
  \o (IF In(body, "status") THEN <<<<"status", body.status>>>> ELSE <<>>)
  \o (IF In(body, "priority") THEN <<<<"priority", body.priority>>>> ELSE <<>>)
  \o (IF In(body, "due_date")
        THEN <<<<"due_date", TextAffinity(Coalesce(body.due_date, NULL))>>>> ELSE <<>>)

\* (body.title ?? '').trim() throws when the title is neither text, null nor
\* absent; the enumerations have been validated by then
PatchTrimThrows(body) ==
  /\ validateEnums(body.status, body.priority) = ""
  /\ In(body, "title")
  /\ body.title \in NotText

\* the statement cannot take one of the parameters pushed for it
PatchBindThrows(body) ==
  \/ In(body, "description") /\ ~CanBind(Coalesce(body.description, NULL))
  \/ In(body, "due_date") /\ ~CanBind(Coalesce(body.due_date, NULL))

\* the validation without the test of the title
PatchInvalid_TitleUnchecked(body) ==
  IF validateEnums(body.status, body.priority) # ""
    THEN validateEnums(body.status, body.priority)
  ELSE IF PatchSets(body) = <<>> THEN "No fields to update"
  ELSE ""

\* the validation without the test for an empty `sets`
PatchInvalid_NoEmptyTest(body) ==
  IF validateEnums(body.status, body.priority) # ""
    THEN validateEnums(body.status, body.priority)
  ELSE IF In(body, "title") /\ Trim(Coalesce(body.title, <<>>)) = <<>>
    THEN "title cannot be empty"
  ELSE ""

\* the error the handler answers before any statement is built, "" when none
PatchInvalid(body) ==
  IF validateEnums(body.status, body.priority) # ""
    THEN validateEnums(body.status, body.priority)
  ELSE IF In(body, "title") /\ Trim(Coalesce(body.title, <<>>)) = <<>>
    THEN "title cannot be empty"
  ELSE IF PatchSets(body) = <<>> THEN "No fields to update"
  ELSE ""

\* UPDATE tasks SET <sets>, updated_at = NOW WHERE id = ? AND user_id = ? RETURNING ...
UpdateSql(sets) ==
  <<"UPDATE tasks SET">> \o [i \in 1..Len(sets) |-> sets[i][1]]
    \o <<"updated_at = NOW", "WHERE id = ? AND user_id = ?", "RETURNING">>

RECURSIVE ApplySets(_, _)
ApplySets(row, sets) ==
  IF sets = <<>> THEN row
  ELSE ApplySets([row EXCEPT ![Head(sets)[1]] = Head(sets)[2]], Tail(sets))

UpdateRow(row, sets, t) == [ApplySets(row, sets) EXCEPT !.updated_at = NOW_EXPR(t)]

\* the update without the owner in its predicate
stmtUpdate_AnyOwner(store, sets, id, user, t) ==
  [i \in DOMAIN store |-> IF i = id THEN UpdateRow(store[i], sets, t) ELSE store[i]]

stmtUpdate(store, sets, id, user, t) ==
  [i \in DOMAIN store |->
     IF i = id /\ store[i].user_id = user THEN UpdateRow(store[i], sets, t) ELSE store[i]]

\* RETURNING that yields the updated_at the row had before the statement
UpdateReturning_Stale(store, sets, id, user, t) ==
  {ApplySets(store[i], sets) : i \in {j \in DOMAIN store : j = id /\ store[j].user_id = user}}

\* the rows RETURNING yields
UpdateReturning(store, sets, id, user, t) ==
  {UpdateRow(store[i], sets, t) : i \in {j \in DOMAIN store : j = id /\ store[j].user_id = user}}

\* the handler looking the row up before it validates the document
PatchResp_LookupFirst(store, user, raw, body, t) ==
  LET id == resolveTaskId(raw)
      returned == UpdateReturning(store, PatchSets(body), id, user, t)
  IN IF id = 0 THEN NotFound
     ELSE IF returned = {} THEN NotFound
     ELSE IF PatchInvalid(body) # "" THEN ErrorResp(400, PatchInvalid(body))
     ELSE ok(200, <<CHOOSE r \in returned : TRUE>>)

PatchResp(store, user, raw, body, t) ==
  LET id == resolveTaskId(raw)
      returned == UpdateReturning(store, PatchSets(body), id, user, t)
  IN IF id = 0 THEN NotFound
     ELSE IF PatchTrimThrows(body) THEN Uncaught
     ELSE IF PatchInvalid(body) # "" THEN ErrorResp(400, PatchInvalid(body))
     ELSE IF PatchBindThrows(body) THEN Uncaught
     ELSE IF returned = {} THEN NotFound
     ELSE ok(200, <<CHOOSE r \in returned : TRUE>>)

\* the handler as a read followed by a write: it answers from the row it
\* looked up, and a delete of that row can take effect before its UPDATE runs
PatchWith_ReadThenWrite(header, user, raw, body) ==
  /\ Idle
  /\ LET id == resolveTaskId(raw)
         compiled == id # 0 /\ ~PatchTrimThrows(body) /\ PatchInvalid(body) = ""
         executed == compiled /\ ~PatchBindThrows(body)
     IN /\ \E between \in {tasks, stmtDelete(tasks, id, user)} :
             tasks' = IF executed THEN stmtUpdate(between, PatchSets(body), id, user, now)
                      ELSE tasks
        /\ stmtCache' = IF compiled THEN getStmt(stmtCache, UpdateSql(PatchSets(body)))
                        ELSE stmtCache
  /\ Done(header, Request("patch", user, raw, body, NoQuery),
          PatchResp(tasks, user, raw, body, now))
  /\ UNCHANGED <<nextId, now>>

\* the statement is compiled before its parameters are bound, so a parameter
\* the store cannot take leaves the statement in the cache and the table as
\* it was
PatchWith(header, user, raw, body) ==
  /\ Idle
  /\ LET id == resolveTaskId(raw)
         compiled == id # 0 /\ ~PatchTrimThrows(body) /\ PatchInvalid(body) = ""
         executed == compiled /\ ~PatchBindThrows(body)
     IN /\ tasks' = IF executed THEN stmtUpdate(tasks, PatchSets(body), id, user, now)
                    ELSE tasks
        /\ stmtCache' = IF compiled THEN getStmt(stmtCache, UpdateSql(PatchSets(body)))
                        ELSE stmtCache
  /\ Done(header, Request("patch", user, raw, body, NoQuery),
          PatchResp(tasks, user, raw, body, now))
  /\ UNCHANGED <<nextId, now>>

Patch(user, raw, body) == PatchWith(BearerOf(user), user, raw, body)

(***************************************************************************)
(* GET /tasks                                                              *)
(***************************************************************************)
\* if (x) for a query parameter: undefined and '' are falsy
Truthy(v) == v # UNDEFINED /\ v # <<>>

\* the validation of the enumerations alone
ListInvalid_DatesUnchecked(q) ==
  IF validateEnums(q.status, q.priority) # "" THEN validateEnums(q.status, q.priority)
  ELSE ""

\* the error the handler answers before any statement is built, "" when none
ListInvalid(q) ==
  IF validateEnums(q.status, q.priority) # "" THEN validateEnums(q.status, q.priority)
  ELSE IF q.due_before # UNDEFINED /\ ~ISO_DATE_RE(q.due_before)
    THEN "due_before must be a valid ISO 8601 date (YYYY-MM-DD or YYYY-MM-DDTHH:MM:SSZ)"
  ELSE IF q.due_after # UNDEFINED /\ ~ISO_DATE_RE(q.due_after)
    THEN "due_after must be a valid ISO 8601 date (YYYY-MM-DD or YYYY-MM-DDTHH:MM:SSZ)"
  ELSE ""

EffectiveLimit(raw) ==
  Min(Max(OrDefault(ParseInt(raw, 0), DEFAULT_PAGE_SIZE), 1), MAX_PAGE_SIZE)

EffectiveOffset(raw) == Max(OrDefault(ParseInt(raw, 0), 0), 0)

\* `conditions` with `filterParams`, in the handler's order
Conditions(q) ==
  (IF Truthy(q.status) THEN <<<<"status = ?", q.status>>>> ELSE <<>>)
  \o (IF Truthy(q.priority) THEN <<<<"priority = ?", q.priority>>>> ELSE <<>>)
  \o (IF Truthy(q.due_before) THEN <<<<"due_date < ?", q.due_before>>>> ELSE <<>>)
  \o (IF Truthy(q.due_after) THEN <<<<"due_date > ?", q.due_after>>>> ELSE <<>>)

isOverdue(q) == q.include_overdue = S_true

\* the date bounds taken inclusively
CondHolds_Inclusive(row, cond) ==
  CASE cond[1] = "status = ?" -> row.status = cond[2]
    [] cond[1] = "priority = ?" -> row.priority = cond[2]
    [] cond[1] = "due_date < ?" -> row.due_date # NULL /\ ~TextLt(cond[2], row.due_date)
    [] cond[1] = "due_date > ?" -> row.due_date # NULL /\ ~TextLt(row.due_date, cond[2])

\* one condition of the WHERE clause on one row; a comparison with NULL is not true
CondHolds(row, cond) ==
  CASE cond[1] = "status = ?" -> row.status = cond[2]
    [] cond[1] = "priority = ?" -> row.priority = cond[2]
    [] cond[1] = "due_date < ?" -> row.due_date # NULL /\ TextLt(row.due_date, cond[2])
    [] cond[1] = "due_date > ?" -> row.due_date # NULL /\ TextLt(cond[2], row.due_date)

\* the filter branch without the owner in its predicate
filterWhere_AnyOwner(row, user, conds) ==
  \A i \in 1..Len(conds) : CondHolds(row, conds[i])

\* user_id = ? AND <conditions joined by AND>
filterWhere(row, user, conds) ==
  /\ row.user_id = user
  /\ \A i \in 1..Len(conds) : CondHolds(row, conds[i])

\* user_id = ? AND <OVERDUE_CLAUSE>
overdueWhere(row, user, t) == row.user_id = user /\ OVERDUE_CLAUSE(row, t)

Rows(store) == {store[i] : i \in DOMAIN store}

\* the rows the list statement selects, before ORDER BY, LIMIT and OFFSET
ListRows(store, user, q, t) ==
  LET conds == Conditions(q)
  IN IF conds # <<>> /\ isOverdue(q)
       THEN {r \in Rows(store) : filterWhere(r, user, conds)}
              \cup {r \in Rows(store) : overdueWhere(r, user, t)}
     ELSE IF conds # <<>> THEN {r \in Rows(store) : filterWhere(r, user, conds)}
     ELSE IF isOverdue(q) THEN {r \in Rows(store) : overdueWhere(r, user, t)}
     ELSE {r \in Rows(store) : r.user_id = user}

\* the count with UNION ALL between the branches
CountTotal_UnionAll(store, user, q, t) ==
  LET conds == Conditions(q)
  IN IF conds # <<>> /\ isOverdue(q)
       THEN Cardinality({x \in Rows(store) : filterWhere(x, user, conds)})
              + Cardinality({x \in Rows(store) : overdueWhere(x, user, t)})
     ELSE IF conds # <<>>
       THEN Cardinality({r \in Rows(store) : filterWhere(r, user, conds)})
     ELSE IF isOverdue(q)
       THEN Cardinality({r \in Rows(store) : overdueWhere(r, user, t)})
     ELSE Cardinality({r \in Rows(store) : r.user_id = user})

\* the count of the caller's whole table, whatever the filters
CountTotal_Unfiltered(store, user, q, t) ==
  Cardinality({r \in Rows(store) : r.user_id = user})

\* the total the count statement yields
CountTotal(store, user, q, t) ==
  LET conds == Conditions(q)
  IN IF conds # <<>> /\ isOverdue(q)
       THEN Cardinality({r.id : r \in {x \in Rows(store) : filterWhere(x, user, conds)}}
                          \cup {r.id : r \in {x \in Rows(store) : overdueWhere(x, user, t)}})
     ELSE IF conds # <<>>
       THEN Cardinality({r \in Rows(store) : filterWhere(r, user, conds)})
     ELSE IF isOverdue(q)
       THEN Cardinality({r \in Rows(store) : overdueWhere(r, user, t)})
     ELSE Cardinality({r \in Rows(store) : r.user_id = user})

ShapeOf(q) ==
  IF Conditions(q) # <<>> /\ isOverdue(q) THEN "union"
  ELSE IF Conditions(q) # <<>> THEN "filter"
  ELSE IF isOverdue(q) THEN "overdue"
  ELSE "all"

\* the condition texts with the values written into them
CondTexts_WithValues(q) == [i \in 1..Len(Conditions(q)) |-> Conditions(q)[i]]

CondTexts(q) == [i \in 1..Len(Conditions(q)) |-> Conditions(q)[i][1]]

listSql(q) == <<"SELECT", ShapeOf(q)>> \o CondTexts(q) \o <<"ORDER BY created_at DESC LIMIT ? OFFSET ?">>

countSql(q) == <<"SELECT COUNT(*)", ShapeOf(q)>> \o CondTexts(q)

\* ORDER BY created_at DESC names no tie-breaker: which of two rows with equal
\* created_at comes first is the engine's choice
OrderByCreatedAtDesc(rows) ==
  {ord \in [1..Cardinality(rows) -> rows] :
     /\ \A i, j \in 1..Cardinality(rows) : i # j => ord[i] # ord[j]
     /\ \A i, j \in 1..Cardinality(rows) :
          i < j => ~TextLt(ord[i].created_at, ord[j].created_at)}

\* the orders in which a prepared statement can yield the rows of the table,
\* as sequences of ids
ScanOrders(store) ==
  {[i \in 1..Cardinality(Rows(store)) |-> ord[i].id] :
     ord \in OrderByCreatedAtDesc(Rows(store))}

\* the selected rows in the order the statement yields them
Ordered(store, scan, rows) ==
  LET ids == SelectSeq(scan, LAMBDA id : store[id] \in rows)
  IN [i \in 1..Len(ids) |-> store[ids[i]]]

\* LIMIT and OFFSET with the offset left out
LimitOffset_NoOffset(ord, limit, offset) ==
  [i \in 1..Max(0, Min(limit, Len(ord))) |-> ord[i]]

\* LIMIT ? OFFSET ?
LimitOffset(ord, limit, offset) ==
  [i \in 1..Max(0, Min(limit, Len(ord) - offset)) |-> ord[offset + i]]

ListResp(store, user, q, t, ord) ==
  IF ListInvalid(q) # "" THEN ErrorResp(400, ListInvalid(q))
  ELSE [status |-> 200, error |-> "",
        data |-> LimitOffset(ord, EffectiveLimit(q.limit), EffectiveOffset(q.offset)),
        meta |-> [total |-> CountTotal(store, user, q, t),
                  limit |-> EffectiveLimit(q.limit),
                  offset |-> EffectiveOffset(q.offset)],
        deleted |-> FALSE]

\* the handler with a delete of one of the caller's tasks taking effect
\* between the page statement and the count statement
ListHandler_CountAfterWrite(header, user, q, pages, scan) ==
  \E after \in {tasks} \cup {stmtDelete(tasks, i, user) : i \in DOMAIN tasks} :
    /\ LET ord == IF ListInvalid(q) # "" THEN <<>>
                  ELSE Ordered(tasks, scan, ListRows(tasks, user, q, now))
           page == ListResp(tasks, user, q, now, ord)
           resp == IF page.status = 200
                     THEN [page EXCEPT !.meta.total = CountTotal(after, user, q, now)]
                     ELSE page
       IN Exchange(header, Request("list", user, NoId, NoBody, q), resp,
                   IF resp.status = 200
                     THEN Append(pages, [ids |-> [i \in 1..Len(resp.data) |-> resp.data[i].id],
                                         at |-> now])
                     ELSE <<>>,
                   IF resp.status = 200 THEN scan ELSE <<>>)
    /\ stmtCache' = IF ListInvalid(q) # "" THEN stmtCache
                    ELSE getStmt(getStmt(stmtCache, listSql(q)), countSql(q))
    /\ tasks' = IF ListInvalid(q) # "" THEN tasks ELSE after
    /\ UNCHANGED <<nextId, now>>

\* the handler; `pages` are the pages the client's paging run holds already
\* and `scan` is the order in which the cached statement yields the table
ListHandler(header, user, q, pages, scan) ==
  /\ LET ord == IF ListInvalid(q) # "" THEN <<>>
                ELSE Ordered(tasks, scan, ListRows(tasks, user, q, now))
         resp == ListResp(tasks, user, q, now, ord)
     IN Exchange(header, Request("list", user, NoId, NoBody, q), resp,
                 IF resp.status = 200
                   THEN Append(pages, [ids |-> [i \in 1..Len(resp.data) |-> resp.data[i].id],
                                       at |-> now])
                   ELSE <<>>,
                 IF resp.status = 200 THEN scan ELSE <<>>)
  /\ stmtCache' = IF ListInvalid(q) # "" THEN stmtCache
                  ELSE getStmt(getStmt(stmtCache, listSql(q)), countSql(q))
  /\ UNCHANGED <<tasks, nextId, now>>

ListWith(header, user, q) ==
  /\ Idle
  /\ \E scan \in ScanOrders(tasks) : ListHandler(header, user, q, <<>>, scan)

List(user, q) == ListWith(BearerOf(user), user, q)

\* a client that holds a page asks for the next one: the same request with
\* the offset moved on by the limit. The table is the one the page before was
\* read from and the statement is the cached one, so its rows come in the
\* same order.
NextPage ==
  /\ last.req.op = "list"
  /\ last.resp.status = 200
  /\ last.resp.meta.offset + last.resp.meta.limit < last.resp.meta.total
  /\ ListHandler(last.auth, last.req.user,
                 [last.req.query EXCEPT
                    !.offset = NumberToString(last.resp.meta.offset + last.resp.meta.limit)],
                 last.pages, last.scan)

(***************************************************************************)
(* router.use(authenticate): a request reaches its handler only through    *)
(* the middleware.                                                         *)
(***************************************************************************)
Serve(header, op, raw, body, q) ==
  LET a == authenticate(header, JWT_SECRET)
  IN IF a.status # 0
       THEN /\ Idle
            /\ Done(header, Request(op, 0, raw, body, q), ErrorResp(a.status, a.error))
            /\ UNCHANGED <<tasks, nextId, now, stmtCache>>
       ELSE CASE op = "create" -> CreateWith(header, a.user, body)
              [] op = "get" -> GetByIdWith(header, a.user, raw)
              [] op = "patch" -> PatchWith(header, a.user, raw, body)
              [] op = "delete" -> DeleteWith(header, a.user, raw)
              [] op = "list" -> ListWith(header, a.user, q)

(***************************************************************************)
(* The store clock advances.                                               *)
(***************************************************************************)
Tick ==
  /\ now < MaxClock
  /\ now' = now + 1
  /\ UNCHANGED <<tasks, nextId, stmtCache, last>>

(***************************************************************************)
(* Requests the clients send.                                              *)
(***************************************************************************)
Users == {1, 2}

T_a == <<" ", "a", " ">>
T_b == <<"b">>
T_blank == <<" ", " ">>
T_d == <<"d">>
T_e == <<"e">>
T_bogus == <<"b", "o", "g", "u", "s">>
D_2020_06_01 == <<"2", "0", "2", "0", "-", "0", "6", "-", "0", "1">>
D_2021_01_01 == <<"2", "0", "2", "1", "-", "0", "1", "-", "0", "1">>
D_second_0 == <<"2", "0", "2", "1", "-", "0", "1", "-", "0", "1", "T", "0", "0", ":", "0", "0", ":", "0", "0", "Z">>
D_2099_12_31 == <<"2", "0", "9", "9", "-", "1", "2", "-", "3", "1">>
D_malformed == <<"2", "0", "2", "1", "-", "1", "-", "1">>
D_no_zone == <<"2", "0", "2", "1", "-", "0", "1", "-", "0", "1", "T", "0", "0", ":", "0", "0", ":", "0", "0">>
D_trailing_blank == <<"2", "0", "2", "1", "-", "0", "1", "-", "0", "1", " ">>

Body(title, description, status, priority, due_date) ==
  [title |-> title, description |-> description, status |-> status,
   priority |-> priority, due_date |-> due_date]

Query(status, priority, due_before, due_after, include_overdue, limit, offset) ==
  [status |-> status, priority |-> priority, due_before |-> due_before,
   due_after |-> due_after, include_overdue |-> include_overdue,
   limit |-> limit, offset |-> offset]

RawIds == {<<"1">>, <<"2">>, <<"3">>}

(***************************************************************************)
(* Initial states.                                                         *)
(***************************************************************************)
EmptyStore == [i \in {} |-> NULL]

\* after tasksRouter(db) on an empty table
Init ==
  /\ tasks = EmptyStore
  /\ nextId = 1
  /\ now = 0
  /\ stmtCache = {}
  /\ last = NoExchange

\* every statement text the handlers can build
AllQueryShapes ==
  {Query(s, p, b, a, o, UNDEFINED, UNDEFINED) :
     s \in {UNDEFINED, S_todo}, p \in {UNDEFINED, S_low},
     b \in {UNDEFINED, D_second_0}, a \in {UNDEFINED, D_second_0},
     o \in {UNDEFINED, S_true}}

AllBodyShapes ==
  {b \in {Body(t, d, s, p, u) :
            t \in {UNDEFINED, T_b}, d \in {UNDEFINED, NULL}, s \in {UNDEFINED, S_todo},
            p \in {UNDEFINED, S_low}, u \in {UNDEFINED, NULL}} : PatchSets(b) # <<>>}

AllSql ==
  {listSql(q) : q \in AllQueryShapes} \cup {countSql(q) : q \in AllQueryShapes}
    \cup {UpdateSql(PatchSets(b)) : b \in AllBodyShapes}

\* the router once every statement shape has been requested on the empty table
InitWarm ==
  /\ tasks = EmptyStore
  /\ nextId = 1
  /\ now = 0
  /\ stmtCache = AllSql
  /\ last = NoExchange

(***************************************************************************)
(* The list endpoint over tasks of two users, from a router whose          *)
(* statements are compiled.                                                *)
(***************************************************************************)
ListCreateBodies ==
  {Body(T_a, UNDEFINED, UNDEFINED, UNDEFINED, UNDEFINED),
   Body(T_a, UNDEFINED, S_done, UNDEFINED, D_2020_06_01),
   Body(T_a, UNDEFINED, UNDEFINED, UNDEFINED, D_2020_06_01),
   Body(T_a, UNDEFINED, UNDEFINED, S_high, D_second_0),
   Body(T_a, UNDEFINED, S_done, S_high, D_2099_12_31),
   Body(T_a, UNDEFINED, UNDEFINED, UNDEFINED, D_2099_12_31)}

OtherCreateBodies ==
  {Body(T_a, UNDEFINED, UNDEFINED, UNDEFINED, D_2020_06_01),
   Body(T_a, UNDEFINED, S_done, S_high, D_second_0)}

FilterQueries ==
  {Query(s, p, b, a, o, pg[1], pg[2]) :
     s \in {UNDEFINED, S_done}, p \in {UNDEFINED, S_high},
     b \in {UNDEFINED, D_second_0}, a \in {UNDEFINED, D_second_0},
     o \in {UNDEFINED, S_true},
     pg \in {<<UNDEFINED, UNDEFINED>>, <<<<"1">>, UNDEFINED>>, <<<<"1">>, <<"1">>>>}}

PageQueries ==
  {Query(UNDEFINED, UNDEFINED, UNDEFINED, UNDEFINED, UNDEFINED, l, o) :
     l \in {UNDEFINED, <<"0">>, <<"1">>, <<"2">>, <<"-", "1">>, <<"5", "0", "0">>,
            <<"5", "0", "1">>, <<"a">>},
     o \in {UNDEFINED, <<"0">>, <<"1">>, <<"2">>, <<"-", "1">>}}

InvalidQueries ==
  {Query(T_bogus, UNDEFINED, UNDEFINED, UNDEFINED, UNDEFINED, UNDEFINED, UNDEFINED),
   Query(UNDEFINED, UNDEFINED, D_malformed, UNDEFINED, S_true, UNDEFINED, UNDEFINED)}

ListQueries == FilterQueries \cup PageQueries \cup InvalidQueries

NextList ==
  \/ \E b \in ListCreateBodies : Create(1, b)
  \/ \E b \in OtherCreateBodies : Create(2, b)
  \/ \E q \in ListQueries : List(1, q)
  \/ NextPage
  \/ Deliver
  \/ Tick

SpecList == InitWarm /\ [][NextList]_vars

(***************************************************************************)
(* One user paging through the unfiltered list, from construction.         *)
(***************************************************************************)
PageCreateBodies == {Body(T_a, UNDEFINED, UNDEFINED, UNDEFINED, UNDEFINED)}

NextPaging ==
  \/ \E u \in Users, b \in PageCreateBodies : Create(u, b)
  \/ \E q \in PageQueries : List(1, q)
  \/ NextPage
  \/ Deliver
  \/ Tick

SpecPage == Init /\ [][NextPaging]_vars

(***************************************************************************)
(* Two users reading, updating and deleting each other's and their own     *)
(* tasks by id.                                                            *)
(***************************************************************************)
OwnerCreateBodies == {Body(T_a, T_d, UNDEFINED, UNDEFINED, D_2020_06_01)}

OwnerPatchBodies ==
  {Body(T_b, UNDEFINED, UNDEFINED, UNDEFINED, UNDEFINED),
   Body(UNDEFINED, NULL, S_done, UNDEFINED, UNDEFINED),
   NoBody,
   Body(T_b, UNDEFINED, T_bogus, UNDEFINED, UNDEFINED),
   Body(T_blank, UNDEFINED, S_done, UNDEFINED, UNDEFINED)}

NextOwner ==
  \/ \E u \in Users, b \in OwnerCreateBodies : Create(u, b)
  \/ \E u \in Users, raw \in RawIds : GetById(u, raw)
  \/ \E u \in Users, raw \in RawIds, b \in OwnerPatchBodies : Patch(u, raw, b)
  \/ \E u \in Users, raw \in RawIds : Delete(u, raw)
  \/ Deliver
  \/ Tick

SpecOwner == InitWarm /\ [][NextOwner]_vars

(***************************************************************************)
(* One user updating a task with every combination of keys.                *)
(***************************************************************************)
UpdateBodies ==
  {Body(t, d, s, p, u) :
     t \in {UNDEFINED, T_b}, d \in {UNDEFINED, NULL, T_e}, s \in {UNDEFINED, S_done},
     p \in {UNDEFINED, S_high}, u \in {UNDEFINED, NULL, D_2099_12_31}}

InvalidBodies ==
  {Body(T_b, T_e, T_bogus, UNDEFINED, UNDEFINED),
   Body(UNDEFINED, T_e, UNDEFINED, T_bogus, NULL),
   Body(T_blank, T_e, S_done, UNDEFINED, UNDEFINED),
   Body(NULL, UNDEFINED, UNDEFINED, S_high, UNDEFINED)}

NextUpdate ==
  \/ \E b \in OwnerCreateBodies : Create(1, b)
  \/ \E b \in UpdateBodies \cup InvalidBodies : Patch(1, <<"1">>, b)
  \/ \E raw \in RawIds : GetById(1, raw)
  \/ Deliver
  \/ Tick

SpecUpdate == InitWarm /\ [][NextUpdate]_vars

(***************************************************************************)
(* Requests the handlers reject, next to ones they serve, from             *)
(* construction.                                                           *)
(***************************************************************************)
\* route parameters that are not the decimal form of a positive integer
MalformedIds ==
  {<<"a", "b", "c">>, <<"1", ".", "5">>, <<"0">>, <<"-", "1">>, <<"0", "1">>,
   <<"0", "x", "1">>, <<" ", "1">>, <<"+", "1">>}

RejectCreateBodies ==
  {NoBody,
   Body(<<>>, T_d, UNDEFINED, UNDEFINED, UNDEFINED),
   Body(T_blank, T_d, S_done, UNDEFINED, UNDEFINED),
   Body(NULL, UNDEFINED, UNDEFINED, UNDEFINED, UNDEFINED),
   Body(T_a, UNDEFINED, T_bogus, UNDEFINED, UNDEFINED),
   Body(T_a, UNDEFINED, UNDEFINED, T_bogus, D_2020_06_01),
   Body(T_a, UNDEFINED, NULL, UNDEFINED, UNDEFINED)}

RejectPatchBodies ==
  {NoBody,
   Body(T_b, T_e, T_bogus, UNDEFINED, UNDEFINED),
   Body(UNDEFINED, T_e, UNDEFINED, T_bogus, NULL),
   Body(T_blank, T_e, S_done, UNDEFINED, UNDEFINED),
   Body(NULL, UNDEFINED, UNDEFINED, S_high, UNDEFINED),
   Body(UNDEFINED, UNDEFINED, NULL, UNDEFINED, UNDEFINED)}

ServedPatchBodies == {Body(UNDEFINED, NULL, S_done, UNDEFINED, UNDEFINED)}

\* the documents sent with a malformed id
MalformedIdBodies ==
  ServedPatchBodies
    \cup {NoBody, Body(T_blank, T_e, S_done, UNDEFINED, UNDEFINED)}

RejectQueries ==
  InvalidQueries
    \cup {Query(UNDEFINED, T_bogus, UNDEFINED, UNDEFINED, UNDEFINED, UNDEFINED, UNDEFINED),
          Query(S_done, UNDEFINED, UNDEFINED, D_malformed, UNDEFINED, UNDEFINED, UNDEFINED),
          Query(UNDEFINED, UNDEFINED, <<>>, UNDEFINED, UNDEFINED, UNDEFINED, UNDEFINED),
          Query(<<>>, UNDEFINED, UNDEFINED, UNDEFINED, UNDEFINED, UNDEFINED, UNDEFINED),
          Query(UNDEFINED, S_high, D_2020_06_01, D_no_zone, UNDEFINED, UNDEFINED, UNDEFINED),
          Query(S_todo, S_low, D_trailing_blank, UNDEFINED, S_true, <<"1">>, UNDEFINED)}

ServedQueries ==
  {NoQuery,
   Query(S_done, UNDEFINED, D_second_0, D_2020_06_01, UNDEFINED, UNDEFINED, UNDEFINED)}

NextReject ==
  \/ \E u \in Users, b \in OwnerCreateBodies \cup RejectCreateBodies : Create(u, b)
  \/ \E u \in Users, raw \in RawIds \cup MalformedIds : GetById(u, raw)
  \/ \E u \in Users, raw \in RawIds, b \in RejectPatchBodies \cup ServedPatchBodies :
       Patch(u, raw, b)
  \/ \E u \in Users, raw \in MalformedIds, b \in MalformedIdBodies : Patch(u, raw, b)
  \/ \E u \in Users, raw \in RawIds \cup MalformedIds : Delete(u, raw)
  \/ Deliver
  \/ Tick

SpecReject == Init /\ [][NextReject]_vars

(***************************************************************************)
(* Tasks that are deleted and then asked for again.                        *)
(***************************************************************************)
GonePatchBodies ==
  ServedPatchBodies
    \cup {NoBody, Body(T_blank, T_e, S_done, UNDEFINED, UNDEFINED)}

NextGone ==
  \/ \E u \in Users, b \in OwnerCreateBodies : Create(u, b)
  \/ \E u \in Users, raw \in RawIds : GetById(u, raw)
  \/ \E u \in Users, raw \in RawIds, b \in GonePatchBodies : Patch(u, raw, b)
  \/ \E u \in Users, raw \in RawIds : Delete(u, raw)
  \/ \E u \in Users : List(u, NoQuery)
  \/ Deliver
  \/ Tick

SpecGone == Init /\ [][NextGone]_vars

(***************************************************************************)
(* Listings with filters the handler rejects, next to ones it serves.      *)
(***************************************************************************)
NextFilter ==
  \/ \E u \in Users, b \in OwnerCreateBodies : Create(u, b)
  \/ \E u \in Users, q \in RejectQueries \cup ServedQueries : List(u, q)
  \/ Deliver
  \/ Tick

SpecFilter == Init /\ [][NextFilter]_vars

(***************************************************************************)
(* Two users creating tasks and reading them back.                         *)
(***************************************************************************)
ServedCreateBodies ==
  {Body(T_a, UNDEFINED, UNDEFINED, UNDEFINED, UNDEFINED),
   Body(T_b, NULL, S_todo, S_medium, NULL),
   Body(T_a, T_d, S_done, UNDEFINED, D_2020_06_01),
   Body(T_b, <<>>, UNDEFINED, S_urgent, D_malformed),
   Body(T_a, T_e, S_in_progress, S_low, UNDEFINED)}

NextCreate ==
  \/ \E u \in Users, b \in ServedCreateBodies \cup RejectCreateBodies : Create(u, b)
  \/ \E u \in Users, raw \in RawIds : GetById(u, raw)
  \/ Deliver
  \/ Tick

SpecCreate == Init /\ [][NextCreate]_vars

(***************************************************************************)
(* Requests with and without a good bearer token, from construction.       *)
(***************************************************************************)
GoodPayload == Payload(TRUE, 1, TRUE, "user@example.com", TRUE)

RefusedHeaders ==
  {NoHeader,
   Header("Basic  ", BearerOf(1).token),
   Header("bearer ", BearerOf(1).token),
   Header("Bearer ", BlankToken),
   Header("Bearer ", Token(FALSE, "", "", "", "", FALSE, NoPayload)),
   Header("Bearer ", Token(TRUE, "forged", "HS256", ISSUER, ISSUER, FALSE, GoodPayload)),
   Header("Bearer ", Token(TRUE, "", "none", ISSUER, ISSUER, FALSE, GoodPayload)),
   Header("Bearer ", Token(TRUE, JWT_SECRET, "HS256", ISSUER, ISSUER, TRUE, GoodPayload)),
   Header("Bearer ", Token(TRUE, JWT_SECRET, "HS256", "other", ISSUER, FALSE, GoodPayload)),
   Header("Bearer ", Token(TRUE, JWT_SECRET, "HS256", ISSUER, "other", FALSE, GoodPayload)),
   Header("Bearer ", Token(TRUE, JWT_SECRET, "HS256", ISSUER, ISSUER, FALSE,
                           Payload(TRUE, 0, TRUE, "user@example.com", TRUE))),
   Header("Bearer ", Token(TRUE, JWT_SECRET, "HS256", ISSUER, ISSUER, FALSE,
                           Payload(TRUE, 1, TRUE, "", TRUE))),
   Header("Bearer ", Token(TRUE, JWT_SECRET, "HS256", ISSUER, ISSUER, FALSE,
                           Payload(FALSE, 0, FALSE, "", FALSE)))}

Headers == RefusedHeaders \cup {BearerOf(1)}

AuthIds == {<<"1">>, <<"2">>, <<"a", "b", "c">>}

AuthPatchBodies == {Body(T_b, UNDEFINED, UNDEFINED, UNDEFINED, UNDEFINED), NoBody}

AuthCreateBodies == OwnerCreateBodies \cup {NoBody}

AuthQueries ==
  {NoQuery,
   Query(T_bogus, UNDEFINED, UNDEFINED, UNDEFINED, UNDEFINED, UNDEFINED, UNDEFINED)}

NextAuth ==
  \/ \E h \in Headers, b \in AuthCreateBodies : Serve(h, "create", NoId, b, NoQuery)
  \/ \E h \in Headers, raw \in AuthIds : Serve(h, "get", raw, NoBody, NoQuery)
  \/ \E h \in Headers, raw \in AuthIds, b \in AuthPatchBodies :
       Serve(h, "patch", raw, b, NoQuery)
  \/ \E h \in Headers, raw \in AuthIds : Serve(h, "delete", raw, NoBody, NoQuery)
  \/ \E h \in Headers, q \in AuthQueries : Serve(h, "list", NoId, NoBody, q)
  \/ Deliver
  \/ Tick

SpecAuth == Init /\ [][NextAuth]_vars

(***************************************************************************)
(* Lists and updates of few shapes with many values, from construction.    *)
(* The clock stands still: no statement text holds a time, NOW_EXPR is     *)
(* part of the text as an expression.                                      *)
(***************************************************************************)
S_false == <<"f", "a", "l", "s", "e">>

CacheQueries ==
  {NoQuery,
   Query(UNDEFINED, UNDEFINED, UNDEFINED, UNDEFINED, S_false, <<"1">>, UNDEFINED),
   Query(UNDEFINED, UNDEFINED, UNDEFINED, UNDEFINED, UNDEFINED, <<"1">>, <<"1">>),
   Query(S_done, UNDEFINED, UNDEFINED, UNDEFINED, UNDEFINED, UNDEFINED, UNDEFINED),
   Query(S_todo, UNDEFINED, UNDEFINED, UNDEFINED, UNDEFINED, <<"1">>, UNDEFINED),
   Query(UNDEFINED, S_high, UNDEFINED, UNDEFINED, UNDEFINED, UNDEFINED, UNDEFINED),
   Query(UNDEFINED, UNDEFINED, UNDEFINED, UNDEFINED, S_true, UNDEFINED, UNDEFINED),
   Query(UNDEFINED, UNDEFINED, UNDEFINED, UNDEFINED, S_true, <<"2">>, <<"1">>),
   Query(S_todo, UNDEFINED, UNDEFINED, UNDEFINED, S_true, UNDEFINED, UNDEFINED),
   Query(S_done, UNDEFINED, UNDEFINED, UNDEFINED, S_true, UNDEFINED, <<"1">>)}

CachePatchBodies ==
  {Body(T_b, UNDEFINED, UNDEFINED, UNDEFINED, UNDEFINED),
   Body(T_d, UNDEFINED, UNDEFINED, UNDEFINED, UNDEFINED),
   Body(UNDEFINED, NULL, S_done, UNDEFINED, UNDEFINED),
   Body(UNDEFINED, T_e, S_todo, UNDEFINED, UNDEFINED)}

NextCache ==
  \/ \E b \in OwnerCreateBodies : Create(1, b)
  \/ \E u \in Users, raw \in {<<"1">>, <<"2">>}, b \in CachePatchBodies : Patch(u, raw, b)
  \/ \E u \in Users, q \in CacheQueries : List(u, q)
  \/ Deliver

SpecCache == Init /\ [][NextCache]_vars

(***************************************************************************)
(* A client that works through the filter combinations in a fixed order,   *)
(* repeating earlier ones at will, from construction.                      *)
(***************************************************************************)
\* the place of a query's filter combination in that order
ShapeNumber(q) ==
  1 + (IF Truthy(q.status) THEN 1 ELSE 0) + (IF Truthy(q.priority) THEN 2 ELSE 0)
    + (IF Truthy(q.due_before) THEN 4 ELSE 0) + (IF Truthy(q.due_after) THEN 8 ELSE 0)
    + (IF isOverdue(q) THEN 16 ELSE 0)

NextShapes ==
  \/ \E b \in OwnerCreateBodies : Create(1, b)
  \/ \E q \in AllQueryShapes :
       /\ ShapeNumber(q) <= (Cardinality(stmtCache) \div 2) + 1
       /\ List(1, q)
  \/ Deliver
  \/ Tick

SpecShapes == Init /\ [][NextShapes]_vars

(***************************************************************************)
(* Tasks created, updated and deleted with documents the handlers accept   *)
(* and documents they reject.                                              *)
(***************************************************************************)
StoredCreateBodies ==
  {Body(<<"\t", "b", " ">>, NULL, S_done, S_urgent, NULL),
   Body(T_blank, UNDEFINED, UNDEFINED, UNDEFINED, UNDEFINED),
   Body(<<>>, UNDEFINED, S_done, UNDEFINED, UNDEFINED),
   Body(T_a, UNDEFINED, T_bogus, UNDEFINED, UNDEFINED),
   Body(T_a, UNDEFINED, <<>>, UNDEFINED, UNDEFINED),
   Body(T_b, UNDEFINED, UNDEFINED, NULL, UNDEFINED)}

\* a document that also carries the keys id, user_id and created_at
WithRowKeys(body, id, user, created) ==
  [title |-> body.title, description |-> body.description, status |-> body.status,
   priority |-> body.priority, due_date |-> body.due_date,
   id |-> id, user_id |-> user, created_at |-> created]

StoredPatchBodies ==
  {WithRowKeys(Body(T_a, UNDEFINED, UNDEFINED, UNDEFINED, UNDEFINED), 3, 2, D_2099_12_31),
   WithRowKeys(NoBody, 3, 2, D_2099_12_31),
   Body(UNDEFINED, UNDEFINED, S_in_progress, S_low, UNDEFINED),
   Body(T_blank, UNDEFINED, S_todo, UNDEFINED, UNDEFINED),
   Body(NULL, UNDEFINED, UNDEFINED, UNDEFINED, UNDEFINED),
   Body(T_b, UNDEFINED, T_bogus, UNDEFINED, UNDEFINED),
   Body(UNDEFINED, UNDEFINED, S_todo, <<>>, UNDEFINED),
   Body(UNDEFINED, UNDEFINED, NULL, UNDEFINED, UNDEFINED)}

NextStored ==
  \/ \E b \in StoredCreateBodies : Create(1, b)
  \/ \E u \in Users, raw \in RawIds, b \in StoredPatchBodies : Patch(u, raw, b)
  \/ \E u \in Users, raw \in RawIds : Delete(u, raw)
  \/ Deliver
  \/ Tick

SpecStored == Init /\ [][NextStored]_vars

(***************************************************************************)
(* Documents whose values are not text: numbers, booleans and objects for  *)
(* the title, the description, the status, the priority and the due date.  *)
(***************************************************************************)
TypedCreateBodies ==
  {Body(T_b, UNDEFINED, UNDEFINED, UNDEFINED, UNDEFINED),
   Body(T_b, J_5, UNDEFINED, UNDEFINED, J_0),
   Body(J_5, UNDEFINED, UNDEFINED, UNDEFINED, UNDEFINED),
   Body(J_0, UNDEFINED, UNDEFINED, UNDEFINED, UNDEFINED),
   Body(J_true, UNDEFINED, UNDEFINED, UNDEFINED, UNDEFINED),
   Body(J_false, UNDEFINED, UNDEFINED, UNDEFINED, UNDEFINED),
   Body(J_object, UNDEFINED, UNDEFINED, UNDEFINED, UNDEFINED),
   Body(T_b, J_true, UNDEFINED, UNDEFINED, UNDEFINED),
   Body(T_b, UNDEFINED, UNDEFINED, UNDEFINED, J_object),
   Body(T_b, UNDEFINED, J_5, UNDEFINED, UNDEFINED),
   Body(T_b, UNDEFINED, UNDEFINED, J_true, UNDEFINED),
   Body(J_5, UNDEFINED, J_object, UNDEFINED, UNDEFINED)}

TypedPatchBodies ==
  {Body(T_a, UNDEFINED, UNDEFINED, UNDEFINED, UNDEFINED),
   Body(UNDEFINED, J_5, UNDEFINED, UNDEFINED, UNDEFINED),
   Body(J_5, UNDEFINED, UNDEFINED, UNDEFINED, UNDEFINED),
   Body(J_0, UNDEFINED, UNDEFINED, UNDEFINED, UNDEFINED),
   Body(J_object, UNDEFINED, S_done, UNDEFINED, UNDEFINED),
   Body(UNDEFINED, J_false, UNDEFINED, UNDEFINED, UNDEFINED),
   Body(UNDEFINED, UNDEFINED, UNDEFINED, UNDEFINED, J_object),
   Body(UNDEFINED, UNDEFINED, J_0, UNDEFINED, UNDEFINED),
   Body(J_true, UNDEFINED, UNDEFINED, J_5, UNDEFINED),
   NoBody}

NextTyped ==
  \/ \E b \in TypedCreateBodies : Create(1, b)
  \/ \E u \in Users, raw \in {<<"1">>, <<"2">>, <<"a", "b", "c">>}, b \in TypedPatchBodies :
       Patch(u, raw, b)
  \/ \E u \in Users, raw \in {<<"1">>, <<"2">>, <<"a", "b", "c">>} : GetById(u, raw)
  \/ \E u \in Users, raw \in {<<"1">>, <<"2">>, <<"a", "b", "c">>} : Delete(u, raw)
  \/ Deliver
  \/ Tick

SpecTyped == Init /\ [][NextTyped]_vars

(***************************************************************************)
(* The router from construction, with every handler.                       *)
(***************************************************************************)
Next ==
  \/ \E u \in Users, b \in OwnerCreateBodies : Create(u, b)
  \/ \E u \in Users, raw \in RawIds : GetById(u, raw)
  \/ \E u \in Users, raw \in RawIds :
       Patch(u, raw, Body(T_b, UNDEFINED, UNDEFINED, UNDEFINED, UNDEFINED))
  \/ \E u \in Users, raw \in RawIds : Delete(u, raw)
  \/ \E u \in Users,
          q \in InvalidQueries
                 \cup {NoQuery,
                       Query(UNDEFINED, UNDEFINED, UNDEFINED, UNDEFINED, UNDEFINED,
                             <<"1">>, UNDEFINED)} : List(u, q)
  \/ NextPage
  \/ Deliver
  \/ Tick

Spec == Init /\ [][Next]_vars

(***************************************************************************)
(* Properties.                                                             *)
(***************************************************************************)
\* the id the request in flight names (0 when it is malformed)
TargetId == parseTaskId(last.req.id)

Caller == last.req.user

\* the request names a row of the table it ran against
TargetExisted == TargetId \in DOMAIN last.pre

\* the request names a row that belongs to another user
Foreign == TargetExisted /\ last.pre[TargetId].user_id # Caller

\* the table without row `id`
Without(store, id) == [i \in DOMAIN store \ {id} |-> store[i]]

\* the response a by-id request gets from table `store` at second `t`
Replay(req, store, t) ==
  CASE req.op = "get" -> GetByIdResp(store, req.user, req.id)
    [] req.op = "patch" -> PatchResp(store, req.user, req.id, req.body, t)
    [] req.op = "delete" -> DeleteResp(store, req.user, req.id)

\* C1: a read, update or delete of a task that exists but belongs to another
\* user is answered exactly as the same request is answered when the id
\* does not exist at all, and that answer is 404 'Task not found' whenever
\* the request passes the validation that precedes the store access.
C1_ForeignAsMissing ==
  (last.req.op \in {"get", "patch", "delete"} /\ Foreign) =>
    /\ last.resp = Replay(last.req, Without(last.pre, TargetId), last.at)
    /\ (last.req.op # "patch" \/ PatchInvalid(last.req.body) = "") => last.resp = NotFound

C1_Witness ==
  /\ last.req.op = "patch"
  /\ Foreign
  /\ PatchInvalid(last.req.body) = ""
  /\ last.resp = NotFound

\* C2: an update or delete by a user who does not own the target task leaves
\* every task of the table as it was, updated_at included.
C2_NonOwnerChangesNothing ==
  (last.req.op \in {"patch", "delete"} /\ Foreign) => tasks = last.pre

C2_Witness ==
  /\ last.req.op = "patch"
  /\ Foreign
  /\ PatchInvalid(last.req.body) = ""
  /\ last.pre[TargetId].updated_at # NOW_EXPR(last.at)
  /\ tasks = last.pre

UpdatableKeys == {"title", "description", "status", "priority", "due_date"}

Columns ==
  {"id", "user_id", "title", "description", "status", "priority", "due_date",
   "created_at", "updated_at"}

\* C10: a successful update changes, in the target row, only the columns
\* among title, description, status, priority and due_date whose keys are in
\* the document, and updated_at; every other column and every other row
\* keeps its value.
C10_AbsentKeysUntouched ==
  (last.req.op = "patch" /\ last.resp.status = 200) =>
    /\ DOMAIN tasks = DOMAIN last.pre
    /\ \A i \in DOMAIN tasks : i # TargetId => tasks[i] = last.pre[i]
    /\ \A c \in Columns \ {"updated_at"} :
         (c \notin UpdatableKeys \/ ~In(last.req.body, c)) =>
           tasks[TargetId][c] = last.pre[TargetId][c]

C10_Witness ==
  /\ last.req.op = "patch"
  /\ last.resp.status = 200
  /\ ~In(last.req.body, "description") /\ ~In(last.req.body, "due_date")
  /\ In(last.req.body, "title")
  /\ tasks[TargetId].title # last.pre[TargetId].title
  /\ tasks[TargetId].description = T_d
  /\ tasks[TargetId].updated_at # last.pre[TargetId].updated_at

ListOk == last.req.op = "list" /\ last.resp.status = 200

Q == last.req.query

Data == last.resp.data

Meta == last.resp.meta

DataIds == {Data[i].id : i \in 1..Len(Data)}

\* the rows of `store` that belong to `user`
Owned(store, user) == [i \in {j \in DOMAIN store : store[j].user_id = user} |-> store[i]]

HasFilter(q) ==
  \/ q.status # UNDEFINED \/ q.priority # UNDEFINED
  \/ q.due_before # UNDEFINED \/ q.due_after # UNDEFINED

\* the caller's rows that satisfy every filter the request gives
FilterSet(store, user, q) ==
  {i \in DOMAIN store :
     /\ store[i].user_id = user
     /\ q.status # UNDEFINED => store[i].status = q.status
     /\ q.priority # UNDEFINED => store[i].priority = q.priority
     /\ q.due_before # UNDEFINED =>
          store[i].due_date # NULL /\ TextLt(store[i].due_date, q.due_before)
     /\ q.due_after # UNDEFINED =>
          store[i].due_date # NULL /\ TextLt(q.due_after, store[i].due_date)}

\* the caller's rows that are overdue at second t
OverdueSet(store, user, t) ==
  {i \in DOMAIN store :
     /\ store[i].user_id = user
     /\ store[i].due_date # NULL
     /\ TextLt(store[i].due_date, NOW_EXPR(t))
     /\ store[i].status # S_done}

\* the response in flight presents exactly the rows `expected`: the total
\* counts them, the page shows only them, each at most once, and shows all
\* of them when it is large enough
Presents(expected) ==
  /\ Meta.total = Cardinality(expected)
  /\ DataIds \subseteq expected
  /\ Cardinality(DataIds) = Len(Data)
  /\ (Meta.offset = 0 /\ Meta.limit >= Cardinality(expected)) => DataIds = expected

\* C3: every task of a page belongs to the caller, and the page and the total
\* are those the same request gets from the table holding the caller's tasks
\* alone.
C3_OwnTasksOnly ==
  ListOk =>
    /\ \A i \in 1..Len(Data) : Data[i].user_id = Caller
    /\ Meta.total = CountTotal(Owned(last.pre, Caller), Caller, Q, last.at)
    /\ Meta.total <= Cardinality(DOMAIN Owned(last.pre, Caller))
    /\ \E ord \in OrderByCreatedAtDesc(ListRows(Owned(last.pre, Caller), Caller, Q, last.at)) :
         Data = LimitOffset(ord, Meta.limit, Meta.offset)

C3_Witness ==
  /\ ListOk
  /\ Q.status = S_done
  /\ isOverdue(Q)
  /\ \E i \in DOMAIN last.pre :
       /\ last.pre[i].user_id # Caller
       /\ last.pre[i].status = S_done
       /\ last.pre[i].priority = S_high
  /\ Q.priority = S_high
  /\ Meta.total = 1
  /\ Len(Data) = 1

\* C4: without include_overdue, a list request matches exactly the caller's
\* tasks that satisfy all the given filters: status equal, priority equal,
\* due_date strictly below due_before, due_date strictly above due_after (in
\* the store's text order); a null due_date or one equal to the bound matches
\* neither date filter.
C4_FiltersConjunctive ==
  (ListOk /\ ~isOverdue(Q)) => Presents(FilterSet(last.pre, Caller, Q))

C4_Witness ==
  /\ ListOk
  /\ ~isOverdue(Q)
  /\ Q.due_before = D_second_0
  /\ Q.priority = S_high
  /\ Meta.offset = 0
  /\ \E i \in DOMAIN last.pre :
       last.pre[i].user_id = Caller /\ last.pre[i].due_date = D_second_0
  /\ \E i \in DOMAIN last.pre :
       last.pre[i].user_id = Caller /\ last.pre[i].due_date = NULL
  /\ Meta.total = 0

\* C5: with include_overdue and at least one filter, a list request matches
\* the union of the caller's tasks satisfying all filters and the caller's
\* overdue tasks; a task of both branches is shown and counted once.
C5_UnionOnce ==
  (ListOk /\ isOverdue(Q) /\ HasFilter(Q)) =>
    Presents(FilterSet(last.pre, Caller, Q) \cup OverdueSet(last.pre, Caller, last.at))

C5_Witness ==
  /\ ListOk
  /\ isOverdue(Q)
  /\ Q.due_before = D_second_0
  /\ Meta.total = 1
  /\ Len(Data) = 1
  /\ Data[1].id \in FilterSet(last.pre, Caller, Q) \cap OverdueSet(last.pre, Caller, last.at)
  /\ \E i \in DOMAIN last.pre :
       /\ last.pre[i].user_id = Caller
       /\ i \notin FilterSet(last.pre, Caller, Q) \cup OverdueSet(last.pre, Caller, last.at)

\* C6: with include_overdue and no filter, a list request matches exactly the
\* caller's tasks whose due_date is not null and earlier than the store's
\* current time and whose status is not done.
C6_OverdueOnly ==
  (ListOk /\ isOverdue(Q) /\ ~HasFilter(Q)) =>
    Presents(OverdueSet(last.pre, Caller, last.at))

C6_Witness ==
  /\ ListOk
  /\ isOverdue(Q)
  /\ ~HasFilter(Q)
  /\ Meta.offset = 0
  /\ Meta.total = 1
  /\ Len(Data) = 1
  /\ Data[1].due_date = D_second_0
  /\ \E i \in DOMAIN last.pre :
       /\ last.pre[i].user_id = Caller
       /\ last.pre[i].status = S_done
       /\ last.pre[i].due_date = D_2020_06_01

PageTexts == {UNDEFINED, <<"1">>, <<"2">>}

\* C7: meta.total is the number of rows the page's statement selects, and it
\* is the same for every limit and offset.
C7_TotalOfPagePredicate ==
  ListOk =>
    /\ Meta.total = Cardinality(ListRows(last.pre, Caller, Q, last.at))
    /\ \A l \in PageTexts, o \in PageTexts :
         CountTotal(last.pre, Caller, [Q EXCEPT !.limit = l, !.offset = o], last.at)
           = Meta.total

C7_Witness ==
  /\ ListOk
  /\ isOverdue(Q)
  /\ Q.status = S_done
  /\ Meta.limit = 1
  /\ Meta.offset = 1
  /\ Meta.total = 2
  /\ Len(Data) = 1

\* the text is an integer in decimal notation
IsIntegerText(raw) ==
  /\ raw # UNDEFINED
  /\ raw # <<>>
  /\ LET digits == IF Head(raw) = "-" THEN Tail(raw) ELSE raw
     IN digits # <<>> /\ \A i \in 1..Len(digits) : IsDigit(digits[i])

IntegerOf(raw) ==
  IF Head(raw) = "-" THEN 0 - DigitPrefixValue(Tail(raw), 0) ELSE DigitPrefixValue(raw, 0)

\* C8: the effective limit is 50 when limit is absent and otherwise the
\* supplied integer clamped into [1, 500]; the effective offset is 0 when
\* absent and otherwise the supplied integer clamped to at least 0; meta
\* reports the effective values.
C8_ClampedLimitOffset ==
  ListOk =>
    /\ Q.limit = UNDEFINED => Meta.limit = 50
    /\ IsIntegerText(Q.limit) => Meta.limit = Min(Max(IntegerOf(Q.limit), 1), 500)
    /\ Q.offset = UNDEFINED => Meta.offset = 0
    /\ IsIntegerText(Q.offset) => Meta.offset = Max(IntegerOf(Q.offset), 0)

Pages == last.pages

PageIds(k) == {Pages[k].ids[i] : i \in 1..Len(Pages[k].ids)}

\* the offset of the k-th page of the paging run
PageOffset(k) == Meta.offset - (Len(Pages) - k) * Meta.limit

PatchOk == last.req.op = "patch" /\ last.resp.status = 200

Nullable == {"description", "due_date"}

\* the row a successful update of row `row` with document `body` stores
Updated(row, body, t) == UpdateRow(row, PatchSets(body), t)

\* C11: from a task whose description (or due_date) is not null, a
\* successful update whose document has the key with value null stores null
\* in the field and one whose document omits the key keeps the prior value;
\* the same document with the key present as null and with the key omitted
\* gives two different rows.
C11_NullClearsAbsentKeeps ==
  PatchOk =>
    \A k \in Nullable :
      /\ last.req.body[k] = NULL =>
           /\ tasks[TargetId][k] = NULL
           /\ last.resp.data[1][k] = NULL
           /\ last.pre[TargetId][k] # NULL =>
                /\ Updated(last.pre[TargetId], [last.req.body EXCEPT ![k] = UNDEFINED],
                           last.at)[k] = last.pre[TargetId][k]
                /\ Updated(last.pre[TargetId], [last.req.body EXCEPT ![k] = UNDEFINED],
                           last.at) # tasks[TargetId]
      /\ ~In(last.req.body, k) =>
           /\ tasks[TargetId][k] = last.pre[TargetId][k]
           /\ last.pre[TargetId][k] # NULL =>
                Updated(last.pre[TargetId], [last.req.body EXCEPT ![k] = NULL],
                        last.at)[k] = NULL

\* a description that was set is cleared by null while the due_date, whose
\* key is omitted, stays
C11_Witness ==
  /\ PatchOk
  /\ last.req.body.description = NULL
  /\ ~In(last.req.body, "due_date")
  /\ last.pre[TargetId].description = T_d
  /\ tasks[TargetId].description = NULL
  /\ last.pre[TargetId].due_date = D_2020_06_01
  /\ tasks[TargetId].due_date = D_2020_06_01

\* a request has just been handled
Handled(op) == Idle /\ last'.req.op = op

\* C12: an update with a well-formed id whose document holds none of the
\* five updatable keys is answered 400 'No fields to update'; the table is
\* left as it was, updated_at included, and no statement is compiled or run.
C12_NoFieldsRejected ==
  [][(/\ Handled("patch")
      /\ parseTaskId(last'.req.id) # 0
      /\ \A k \in UpdatableKeys : ~In(last'.req.body, k))
     => /\ last'.resp = ErrorResp(400, "No fields to update")
        /\ tasks' = tasks
        /\ stmtCache' = stmtCache]_vars

\* the owner sends the empty document for a task that was last written a
\* second ago
C12_Witness ==
  /\ last.req.op = "patch"
  /\ TargetExisted
  /\ ~Foreign
  /\ last.req.body = NoBody
  /\ last.resp.status = 400
  /\ last.at = 1
  /\ tasks[TargetId].updated_at = NOW_EXPR(0)

\* the document holds a title that trims to empty, or a status or priority
\* outside its enumeration
HasInvalidField(body) ==
  \/ In(body, "title") /\ (body.title = NULL \/ Trim(body.title) = <<>>)
  \/ In(body, "status") /\ body.status \notin {S_todo, S_in_progress, S_done}
  \/ In(body, "priority") /\ body.priority \notin {S_low, S_medium, S_high, S_urgent}

\* C13: an update with a well-formed id whose document holds an invalid
\* field is answered 400 and changes nothing, also when the document holds
\* valid values for other fields: no statement is compiled or run.
C13_InvalidFieldNoPartialCommit ==
  [][(/\ Handled("patch")
      /\ parseTaskId(last'.req.id) # 0
      /\ HasInvalidField(last'.req.body))
     => /\ last'.resp.status = 400
        /\ tasks' = tasks
        /\ stmtCache' = stmtCache]_vars

\* the owner sends a blank title together with a valid description and
\* status that differ from the stored ones
C13_Witness ==
  /\ last.req.op = "patch"
  /\ TargetExisted
  /\ ~Foreign
  /\ last.req.body.title = T_blank
  /\ last.req.body.description = T_e
  /\ last.req.body.status = S_done
  /\ last.resp.status = 400
  /\ tasks[TargetId].description = T_d
  /\ tasks[TargetId].status = S_todo

\* C14: after a successful update the representation returned equals, field
\* by field, the row the table holds for that task, and that row's
\* updated_at is the store's time at the update.
C14_ReturnedIsStored ==
  PatchOk =>
    /\ Len(last.resp.data) = 1
    /\ \A c \in Columns : last.resp.data[1][c] = tasks[TargetId][c]
    /\ tasks[TargetId].updated_at = NOW_EXPR(last.at)

\* an update one second after the creation: the timestamp returned is the
\* new one
C14_Witness ==
  /\ PatchOk
  /\ last.at = 1
  /\ last.pre[TargetId].updated_at = NOW_EXPR(0)
  /\ last.resp.data[1].updated_at = NOW_EXPR(1)
  /\ last.resp.data[1].created_at = NOW_EXPR(0)

CreateOk == last.req.op = "create" /\ last.resp.status = 201

\* a submitted optional value, null when the key is absent or null
OrNull(v) == IF v = UNDEFINED THEN NULL ELSE v

\* a submitted optional value, `d` when the key is absent
OrElse(v, d) == IF v = UNDEFINED THEN d ELSE v

\* C15: the task just created, read by id by the same user, is the
\* representation the create answered with: the owner is the caller, the
\* title is the submitted title trimmed, description and due_date are the
\* submitted values or null, status and priority default to todo and medium,
\* and updated_at equals created_at.  A later read of a task that was created
\* and not updated answers with that same row.
C15_CreateReadRoundTrip ==
  /\ (last.req.op = "get" /\ last.resp.status = 200) =>
       /\ last.resp.data = <<tasks[TargetId]>>
       /\ tasks[TargetId].user_id = Caller
       /\ tasks[TargetId].updated_at = tasks[TargetId].created_at
  /\ CreateOk =>
    LET r == last.resp.data[1]
        b == last.req.body
    IN /\ Len(last.resp.data) = 1
       /\ r.id \notin DOMAIN last.pre
       /\ GetByIdResp(tasks, Caller, NumberToString(r.id)) = ok(200, <<r>>)
       /\ r.user_id = Caller
       /\ r.title = Trim(b.title)
       /\ r.description = OrNull(b.description)
       /\ r.due_date = OrNull(b.due_date)
       /\ r.status = OrElse(b.status, S_todo)
       /\ r.priority = OrElse(b.priority, S_medium)
       /\ r.updated_at = r.created_at
       /\ r.created_at = NOW_EXPR(last.at)

\* a second task, created with only a title that has blanks around it
C15_Witness ==
  /\ CreateOk
  /\ last.req.body = Body(T_a, UNDEFINED, UNDEFINED, UNDEFINED, UNDEFINED)
  /\ last.resp.data[1].id = 2
  /\ last.resp.data[1].title = <<"a">>
  /\ last.resp.data[1].status = S_todo
  /\ last.resp.data[1].priority = S_medium
  /\ last.resp.data[1].description = NULL
  /\ last.at = 1

\* the create document has no usable title, or a status or priority outside
\* its enumeration
CreateDocumentInvalid(body) ==
  \/ body.title \in {UNDEFINED, NULL, <<>>}
  \/ Trim(body.title) = <<>>
  \/ In(body, "status") /\ body.status \notin {S_todo, S_in_progress, S_done}
  \/ In(body, "priority") /\ body.priority \notin {S_low, S_medium, S_high, S_urgent}

\* C16: a create whose title is missing, empty or blank, or whose status or
\* priority is outside its enumeration, is answered 400 and adds no task.
C16_InvalidCreateAddsNothing ==
  [][(Handled("create") /\ CreateDocumentInvalid(last'.req.body))
     => /\ last'.resp.status = 400
        /\ tasks' = tasks
        /\ nextId' = nextId]_vars

\* a create with a good title and a priority outside the enumeration, sent
\* when the table holds a task
C16_Witness ==
  /\ last.req.op = "create"
  /\ last.req.body = Body(T_a, UNDEFINED, UNDEFINED, T_bogus, D_2020_06_01)
  /\ last.resp.status = 400
  /\ DOMAIN tasks = {1}
  /\ nextId = 2

\* the ids of the tasks that were created and are no longer in the table
Gone(next, store) == (1..(next - 1)) \ DOMAIN store

\* a request has just been answered (a first request or a next page)
Answered == last' # last /\ last'.req.op # "none"

\* C17 as stated: once a task is deleted by its owner, every later read,
\* update or delete of its id by any user returns 404 and no later list
\* includes it.
C17_DeletedAlways404 ==
  [][/\ (Handled("delete") /\ last'.resp.deleted) =>
          /\ parseTaskId(last'.req.id) \in DOMAIN tasks
          /\ tasks[parseTaskId(last'.req.id)].user_id = last'.req.user
          /\ parseTaskId(last'.req.id) \in Gone(nextId', tasks')
     /\ Gone(nextId, tasks) \subseteq Gone(nextId', tasks')
     /\ (Answered /\ last'.req.op \in {"get", "patch", "delete"}
           /\ parseTaskId(last'.req.id) \in Gone(nextId, tasks)) =>
          last'.resp = NotFound
     /\ (Answered /\ last'.req.op = "list") =>
          \A i \in 1..Len(last'.resp.data) :
            last'.resp.data[i].id \notin Gone(nextId, tasks)]_vars

\* C17 amended: once a task is deleted by its owner its id never names a
\* task again; every later read or delete of the id, and every later update
\* whose document passes validation, by any user returns 404 (an update
\* whose document is rejected is answered 400 and changes nothing); no later
\* list includes the task.
C17_DeletedStaysGone ==
  [][/\ (Handled("delete") /\ last'.resp.deleted) =>
          /\ parseTaskId(last'.req.id) \in DOMAIN tasks
          /\ tasks[parseTaskId(last'.req.id)].user_id = last'.req.user
          /\ parseTaskId(last'.req.id) \in Gone(nextId', tasks')
     /\ Gone(nextId, tasks) \subseteq Gone(nextId', tasks')
     /\ (Answered /\ last'.req.op \in {"get", "delete"}
           /\ parseTaskId(last'.req.id) \in Gone(nextId, tasks)) =>
          last'.resp = NotFound
     /\ (Answered /\ last'.req.op = "patch"
           /\ parseTaskId(last'.req.id) \in Gone(nextId, tasks)) =>
          /\ tasks' = tasks
          /\ IF HasInvalidField(last'.req.body)
                  \/ \A k \in UpdatableKeys : ~In(last'.req.body, k)
               THEN last'.resp.status = 400
               ELSE last'.resp = NotFound
     /\ (Answered /\ last'.req.op = "list") =>
          \A i \in 1..Len(last'.resp.data) :
            last'.resp.data[i].id \notin Gone(nextId, tasks)]_vars

\* the owner deletes the task a second time, after another task was created
C17_Witness ==
  /\ last.req.op = "delete"
  /\ TargetId = 1
  /\ TargetId \in Gone(nextId, last.pre)
  /\ nextId = 3
  /\ DOMAIN tasks = {2}
  /\ last.resp = NotFound

\* the text is the decimal form of a positive integer: digits only, the
\* first of them not 0
IsCanonicalId(raw) ==
  /\ raw # <<>>
  /\ \A i \in 1..Len(raw) : raw[i] \in {"0", "1", "2", "3", "4", "5", "6", "7", "8", "9"}
  /\ raw[1] # "0"

\* C18: a read, update or delete whose id is not the decimal form of a
\* positive integer is answered 404 'Task not found', whatever the table
\* holds and whatever the body is; the table is untouched and no statement
\* is compiled or run.
C18_MalformedIdNotFound ==
  [][(/\ Answered
      /\ last'.req.op \in {"get", "patch", "delete"}
      /\ ~IsCanonicalId(last'.req.id))
     => /\ last'.resp = NotFound
        /\ tasks' = tasks
        /\ stmtCache' = stmtCache]_vars

\* an update with id '01' and a document that validation would reject, sent
\* by the owner of task 1
C18_Witness ==
  /\ last.req.op = "patch"
  /\ last.req.id = <<"0", "1">>
  /\ HasInvalidField(last.req.body)
  /\ 1 \in DOMAIN tasks
  /\ tasks[1].user_id = Caller
  /\ last.resp = NotFound

\* the text has the shape `shape`, in which d stands for a decimal digit
HasShape(s, shape) ==
  /\ Len(s) = Len(shape)
  /\ \A i \in 1..Len(shape) :
       IF shape[i] = "d"
         THEN s[i] \in {"0", "1", "2", "3", "4", "5", "6", "7", "8", "9"}
         ELSE s[i] = shape[i]

Shape_Date == <<"d", "d", "d", "d", "-", "d", "d", "-", "d", "d">>

Shape_DateTime == Shape_Date \o <<"T", "d", "d", ":", "d", "d", ":", "d", "d", "Z">>

IsDateText(s) == HasShape(s, Shape_Date) \/ HasShape(s, Shape_DateTime)

\* the query holds a status or priority outside its enumeration, or a date
\* bound of neither accepted shape
QueryInvalid(q) ==
  \/ q.status # UNDEFINED /\ q.status \notin {S_todo, S_in_progress, S_done}
  \/ q.priority # UNDEFINED /\ q.priority \notin {S_low, S_medium, S_high, S_urgent}
  \/ q.due_before # UNDEFINED /\ ~IsDateText(q.due_before)
  \/ q.due_after # UNDEFINED /\ ~IsDateText(q.due_after)

\* C19: a list request with a status or priority outside its enumeration,
\* or a due_before or due_after of neither accepted shape, is answered 400
\* with no page; no statement is compiled or run for it.
C19_InvalidFilterRejected ==
  [][(Answered /\ last'.req.op = "list" /\ QueryInvalid(last'.req.query))
     => /\ last'.resp.status = 400
        /\ last'.resp.error # ""
        /\ last'.resp.data = <<>>
        /\ last'.resp.meta = NoMeta
        /\ stmtCache' = stmtCache
        /\ tasks' = tasks]_vars

\* a malformed due_after next to a valid status, before any list statement
\* was compiled, with a task of the caller in the table
C19_Witness ==
  /\ last.req.op = "list"
  /\ last.req.query.status = S_done
  /\ last.req.query.due_after = D_malformed
  /\ last.resp.status = 400
  /\ \E i \in DOMAIN tasks : tasks[i].user_id = Caller
  /\ listSql(NoQuery) \notin stmtCache

\* the header holds a bearer token the service signed and that has not
\* expired, for a user
IsGoodBearer(h) ==
  /\ h.present
  /\ h.prefix = "Bearer "
  /\ ~h.token.blank
  /\ h.token.parses
  /\ h.token.key = "secret" /\ h.token.alg = "HS256"
  /\ h.token.iss = "task-manager-api" /\ h.token.aud = "task-manager-api"
  /\ ~h.token.expired
  /\ h.token.payload.object /\ h.token.payload.integer /\ h.token.payload.userId > 0
  /\ h.token.payload.email # "" /\ h.token.payload.exp

\* C20: a request to any of the five task endpoints with no bearer token or
\* an invalid one is answered 401 with an error body and no data; it leaves
\* the table, the id sequence and the statement cache as they were: the
\* handler is not entered.
C20_NoTokenNoAccess ==
  [][(Answered /\ ~IsGoodBearer(last'.auth))
     => /\ last'.req.op \in {"create", "get", "patch", "delete", "list"}
        /\ last'.resp.status = 401
        /\ last'.resp.error # ""
        /\ last'.resp.data = <<>>
        /\ ~last'.resp.deleted
        /\ tasks' = tasks
        /\ nextId' = nextId
        /\ stmtCache' = stmtCache]_vars

\* a delete of an existing task with a token signed with another key
C20_Witness ==
  /\ last.req.op = "delete"
  /\ last.auth.present
  /\ last.auth.token.parses
  /\ last.auth.token.key = "forged"
  /\ last.auth.token.payload.userId = 1
  /\ TargetId \in DOMAIN tasks
  /\ tasks[TargetId].user_id = 1
  /\ last.resp.status = 401

\* the shape of a list request: which filters are given and whether the
\* overdue branch is on
ListShape(q) ==
  <<q.status # UNDEFINED, q.priority # UNDEFINED, q.due_before # UNDEFINED,
    q.due_after # UNDEFINED, q.include_overdue = S_true>>

\* the shape of an update request: the updatable keys its document holds
UpdateShape(body) == {k \in UpdatableKeys : In(body, k)}

\* the statement texts of every request of the shape of `req` among the
\* requests sent
ShapeKeys(req) ==
  CASE req.op = "list" ->
         UNION {{listSql(q), countSql(q)} :
                  q \in {x \in CacheQueries : ListShape(x) = ListShape(req.query)}}
    [] req.op = "patch" ->
         {UpdateSql(PatchSets(b)) :
            b \in {x \in CachePatchBodies : UpdateShape(x) = UpdateShape(req.body)}}
    [] OTHER -> {}

\* C21: the statements a list or update request needs are the same for every
\* request of its shape, whatever the values, limit, offset, id and user (two
\* texts for a list, one for an update); a step compiles nothing but texts of
\* the request's shape that the cache does not hold, a served request leaves
\* its texts in the cache, and the cache never drops a text, so each shape is
\* compiled at most once and later requests of the shape reuse the statement.
C21_KeyByShapeCompiledOnce ==
  [][/\ stmtCache \subseteq stmtCache'
     /\ (stmtCache' # stmtCache) => Answered
     /\ Answered =>
          /\ stmtCache' \ stmtCache \subseteq ShapeKeys(last'.req)
          /\ Cardinality(ShapeKeys(last'.req)) =
               (CASE last'.req.op = "list" -> 2 [] last'.req.op = "patch" -> 1 [] OTHER -> 0)
          /\ last'.resp.status = 200 => ShapeKeys(last'.req) \subseteq stmtCache']_vars

\* a second update of the title, with another value and by the same shape,
\* is served while the cache holds the one text compiled for the first
C21_Witness ==
  /\ PatchOk
  /\ last.req.body.title = T_b
  /\ last.pre[TargetId].title = T_d
  /\ stmtCache = {UpdateSql(PatchSets(last.req.body))}

\* the texts of list and count statements among the entries of the cache
ListEntries(cache) == {sql \in cache : sql[1] \in {"SELECT", "SELECT COUNT(*)"}}

\* C22: the cache holds at most 32 list and count statements together, and
\* holds the same ones after any step taken once it holds 32.
C22_AtMost32Entries ==
  [][/\ Cardinality(ListEntries(stmtCache')) <= 32
     /\ Cardinality(ListEntries(stmtCache)) = 32 =>
          ListEntries(stmtCache') = ListEntries(stmtCache)]_vars

\* C23: every stored due_date is null or text of the form YYYY-MM-DD or
\* YYYY-MM-DDTHH:MM:SSZ.
C23_DueDateWellFormed ==
  \A i \in DOMAIN tasks : tasks[i].due_date = NULL \/ IsDateText(tasks[i].due_date)

\* C24: every stored task has a status among todo, in_progress and done, a
\* priority among low, medium, high and urgent, and a title that is text,
\* is not empty and neither starts nor ends with white space.
C24_StoredFieldsValid ==
  \A i \in DOMAIN tasks :
    /\ tasks[i].status \in {S_todo, S_in_progress, S_done}
    /\ tasks[i].priority \in {S_low, S_medium, S_high, S_urgent}
    /\ tasks[i].title \notin {UNDEFINED, NULL, <<>>}
    /\ tasks[i].title[1] \notin {" ", "\t"}
    /\ tasks[i].title[Len(tasks[i].title)] \notin {" ", "\t"}

\* an update whose title is padded with blanks replaces the title 'b' of a
\* task that was created with a padded title, as done and urgent, and has
\* been set to in_progress and low since
C24_Witness ==
  /\ PatchOk
  /\ last.req.body.title = T_a
  /\ last.pre[TargetId].title = <<"b">>
  /\ tasks[TargetId].title = <<"a">>
  /\ tasks[TargetId].status = S_in_progress
  /\ tasks[TargetId].priority = S_low

\* C25: a row's id is the id it is stored under, and no step changes the id,
\* the owner or the created_at of a task that is in the table before and
\* after it, whatever keys the documents of the requests carry.
C25_IdentityImmutable ==
  [][/\ \A i \in DOMAIN tasks' : tasks'[i].id = i
     /\ \A i \in DOMAIN tasks \cap DOMAIN tasks' :
          /\ tasks'[i].id = tasks[i].id
          /\ tasks'[i].user_id = tasks[i].user_id
          /\ tasks'[i].created_at = tasks[i].created_at]_vars

\* the owner's update carries id 3, user_id 2 and a created_at of 2099 next to
\* a new title: the title is written a second after the creation, the rest
\* stays
C25_Witness ==
  /\ PatchOk
  /\ "user_id" \in DOMAIN last.req.body
  /\ last.req.body.user_id = 2
  /\ last.req.body.id = 3
  /\ last.req.body.created_at = D_2099_12_31
  /\ TargetId = 1
  /\ last.at = 1
  /\ last.pre[1].title = <<"b">>
  /\ tasks[1].title = <<"a">>
  /\ tasks[1].id = 1
  /\ tasks[1].user_id = 1
  /\ tasks[1].created_at = NOW_EXPR(0)
  /\ tasks[1].updated_at = NOW_EXPR(1)

\* C26: every stored task has an updated_at that is not before its
\* created_at; the two are equal when the task is inserted, and a step
\* changes a task's updated_at only by serving an update of that task.
C26_UpdatedNotBeforeCreated ==
  [][\A i \in DOMAIN tasks' :
       /\ ~TextLt(tasks'[i].updated_at, tasks'[i].created_at)
       /\ i \notin DOMAIN tasks => tasks'[i].updated_at = tasks'[i].created_at
       /\ (i \in DOMAIN tasks /\ tasks'[i].updated_at # tasks[i].updated_at) =>
            /\ Handled("patch")
            /\ last'.resp.status = 200
            /\ parseTaskId(last'.req.id) = i]_vars

\* task 1, created at second 0, has been updated at second 1, while task 2,
\* created at second 1, has not been updated
C26_Witness ==
  /\ PatchOk
  /\ TargetId = 1
  /\ tasks[1].created_at = NOW_EXPR(0)
  /\ tasks[1].updated_at = NOW_EXPR(1)
  /\ 2 \in DOMAIN tasks
  /\ tasks[2].created_at = NOW_EXPR(1)
  /\ tasks[2].updated_at = NOW_EXPR(1)
  /\ TextLt(tasks[1].created_at, tasks[1].updated_at)

\* the table `store` with the row `id` absent, and with a row `id` owned by
\* each of the users
StoreVariants(store, id) ==
  {Without(store, id)}
    \cup {[i \in DOMAIN store \cup {id} |->
             IF i = id
               THEN Row(id, u, <<"x">>, NULL, S_todo, S_medium, NULL, 0)
               ELSE store[i]] : u \in Users}

\* C27: an update with a well-formed id and a document that holds an invalid
\* title, status or priority, or none of the updatable keys, is answered 400
\* with one of the validation messages, and the answer is the one the same
\* request gets when the id names no task, a task of the caller or a task of
\* another user.
C27_ValidationIgnoresStore ==
  (/\ last.req.op = "patch"
   /\ TargetId # 0
   /\ HasInvalidField(last.req.body) \/ \A k \in UpdatableKeys : ~In(last.req.body, k))
  => /\ last.resp.status = 400
     /\ last.resp.error \in
          {"Invalid status. Must be one of: todo, in_progress, done",
           "Invalid priority. Must be one of: low, medium, high, urgent",
           "title cannot be empty", "No fields to update"}
     /\ last.resp.data = <<>>
     /\ \A s \in StoreVariants(last.pre, TargetId) :
          PatchResp(s, Caller, last.req.id, last.req.body, last.at) = last.resp

\* a document with a bogus status, sent for a task of another user
C27_Witness ==
  /\ last.req.op = "patch"
  /\ Foreign
  /\ last.req.body = Body(T_b, T_e, T_bogus, UNDEFINED, UNDEFINED)
  /\ last.resp = ErrorResp(400, "Invalid status. Must be one of: todo, in_progress, done")
  /\ tasks = last.pre

\* the ids of the rows of `store` a list request of `user` with query q
\* matches at second t
SnapshotMatch(store, user, q, t) ==
  IF HasFilter(q) /\ q.include_overdue = S_true
    THEN FilterSet(store, user, q) \cup OverdueSet(store, user, t)
  ELSE IF HasFilter(q) THEN FilterSet(store, user, q)
  ELSE IF q.include_overdue = S_true THEN OverdueSet(store, user, t)
  ELSE {i \in DOMAIN store : store[i].user_id = user}

Committed(body, k) == IF k = "title" THEN Trim(body.title) ELSE body[k]

\* one step of the router seen from the table: an update answered 200 found
\* its task stored and owned by the caller and wrote every assignment of its
\* document to it and nothing else; an update answered otherwise carries one
\* of the statuses `failed` and changes nothing; a delete removes the one task
\* it names, stored and owned by the caller, or answers 404 and changes
\* nothing; and no step brings back the id of a deleted task
UpdateDeleteStep(failed) ==
  LET id == parseTaskId(last'.req.id)
      user == last'.req.user
      body == last'.req.body
      resp == last'.resp
      held == id \in DOMAIN tasks /\ tasks[id].user_id = user
  IN /\ (Answered /\ last'.req.op = "patch") =>
          \/ /\ resp.status = 200
             /\ held
             /\ DOMAIN tasks' = DOMAIN tasks
             /\ \A k \in UpdatableKeys :
                  tasks'[id][k] = IF In(body, k) THEN Committed(body, k) ELSE tasks[id][k]
             /\ tasks'[id].id = id
             /\ tasks'[id].user_id = user
             /\ tasks'[id].created_at = tasks[id].created_at
             /\ tasks'[id].updated_at = NOW_EXPR(now)
             /\ \A j \in DOMAIN tasks \ {id} : tasks'[j] = tasks[j]
             /\ resp.data = <<tasks'[id]>>
          \/ /\ resp.status \in failed
             /\ tasks' = tasks
     /\ (Answered /\ last'.req.op = "delete") =>
          \/ /\ resp.deleted
             /\ held
             /\ tasks' = Without(tasks, id)
          \/ /\ resp.status = 404
             /\ ~held
             /\ tasks' = tasks
     /\ \A i \in Gone(nextId, tasks) : i \notin DOMAIN tasks'

\* C29 as stated: under every interleaving of updates and deletes on the same
\* task, an update answers 200 only if its assignments were committed to a
\* task that was stored and owned by the caller at that instant, otherwise it
\* answers 404 and changes nothing; a delete is one statement too, and a
\* deleted task is never re-created or partly updated.
C29_UpdateAnswers200Or404 == [][UpdateDeleteStep({404})]_vars

\* C29: under every interleaving of updates and deletes on the same task, an
\* update answers 200 only if its assignments were committed to a task that
\* was stored and owned by the caller at that instant, otherwise it answers
\* 404, or 400 when its document is rejected, and changes nothing; a delete
\* is one statement too, and a deleted task is never re-created or partly
\* updated.
C29_AtomicUpdateDelete == [][UpdateDeleteStep({400, 404})]_vars

\* the owner deleted task 1 and then sends an update the handler accepts for
\* it: the answer is 404 and the table stays without the task
C29_Witness ==
  /\ last.req.op = "patch"
  /\ TargetId = 1
  /\ Caller = 1
  /\ 1 \in Gone(nextId, last.pre)
  /\ PatchInvalid(last.req.body) = ""
  /\ last.resp = NotFound
  /\ tasks = last.pre
  /\ 1 \notin DOMAIN tasks

\* C30: every task request of an authenticated user that does not succeed is
\* answered 400 or 404 with an error message and leaves the table unchanged,
\* whatever the values of its document: text, null, numbers, booleans or
\* objects.
C30_FailuresAre400Or404 ==
  [][(Answered /\ last'.resp.status \notin {200, 201}) =>
       /\ last'.resp.status \in {400, 404}
       /\ last'.resp.error # ""
       /\ tasks' = tasks]_vars
====
